---- MODULE Spec2Model ----
(***************************************************************************)
(* A model of the typed data layer of rabbitmq_http_client: the vocabulary *)
(* enumerations of commons.rs with their string conversions, the queue     *)
(* declaration builder of requests.rs and the response records of          *)
(* responses.rs that embed the enumerations.                               *)
(*                                                                         *)
(* Rust strings are TLA+ strings; equality of TLA+ strings is the exact    *)
(* byte equality a Rust `match` on &str performs.  Where a conversion      *)
(* works on characters (letter case, padding, serde's rename rules) the    *)
(* text is a sequence of one-character strings and Str turns it into the   *)
(* string it spells.                                                       *)
(***************************************************************************)
EXTENDS Integers, Sequences, FiniteSets, TLC

VARIABLES ops, vals, callers

vars == <<ops, vals, callers>>

(***************************************************************************)
(* Bounds.                                                                 *)
(***************************************************************************)
\* the longest chain of calls a caller makes on one value
MaxChain == 3

\* the callers that run at the same time
NumCallers == 2

(***************************************************************************)
(* Characters and strings.                                                 *)
(***************************************************************************)
RECURSIVE Str(_)
Str(cs) == IF cs = <<>> THEN "" ELSE Head(cs) \o Str(Tail(cs))

LowerCaseLetters == <<"a", "b", "c", "d", "e", "f", "g", "h", "i", "j", "k", "l", "m", "n", "o", "p", "q", "r", "s", "t", "u", "v", "w", "x", "y", "z">>
UpperCaseLetters == <<"A", "B", "C", "D", "E", "F", "G", "H", "I", "J", "K", "L", "M", "N", "O", "P", "Q", "R", "S", "T", "U", "V", "W", "X", "Y", "Z">>

IsUpper(c) == \E i \in 1..Len(UpperCaseLetters) : UpperCaseLetters[i] = c
IsLower(c) == \E i \in 1..Len(LowerCaseLetters) : LowerCaseLetters[i] = c

\* char::to_ascii_lowercase / to_ascii_uppercase
CharLower(c) ==
    IF IsUpper(c)
    THEN LowerCaseLetters[CHOOSE i \in 1..Len(UpperCaseLetters) : UpperCaseLetters[i] = c]
    ELSE c
CharUpper(c) ==
    IF IsLower(c)
    THEN UpperCaseLetters[CHOOSE i \in 1..Len(LowerCaseLetters) : LowerCaseLetters[i] = c]
    ELSE c

AsciiLower(cs) == [i \in 1..Len(cs) |-> CharLower(cs[i])]
AsciiUpper(cs) == [i \in 1..Len(cs) |-> CharUpper(cs[i])]
Capitalize(cs) == [i \in 1..Len(cs) |-> IF i = 1 THEN CharUpper(cs[i]) ELSE cs[i]]

\* str::trim for the one whitespace character the inputs use
RECURSIVE TrimStart(_)
TrimStart(cs) == IF cs # <<>> /\ Head(cs) = " " THEN TrimStart(Tail(cs)) ELSE cs
RECURSIVE TrimEnd(_)
TrimEnd(cs) ==
    IF cs # <<>> /\ cs[Len(cs)] = " " THEN TrimEnd(SubSeq(cs, 1, Len(cs) - 1)) ELSE cs
Trim(cs) == TrimEnd(TrimStart(cs))

\* the text with its letter case and surrounding whitespace removed
Fold(cs) == AsciiLower(Trim(cs))

(***************************************************************************)
(* The strings callers and servers hand to the decoders.                   *)
(***************************************************************************)
\* every string literal the conversion tables of commons.rs match on
CanonicalChars ==
    { <<"c", "l", "u", "s", "t", "e", "r", "i", "n", "g">>,
      <<"a", "m", "q", "p">>,
      <<"a", "m", "q", "p", "s">>,
      <<"s", "t", "r", "e", "a", "m">>,
      <<"s", "t", "r", "e", "a", "m", "/", "s", "s", "l">>,
      <<"m", "q", "t", "t">>,
      <<"m", "q", "t", "t", "/", "s", "s", "l">>,
      <<"s", "t", "o", "m", "p">>,
      <<"s", "t", "o", "m", "p", "/", "s", "s", "l">>,
      <<"h", "t", "t", "p", "/", "w", "e", "b", "-", "m", "q", "t", "t">>,
      <<"h", "t", "t", "p", "s", "/", "w", "e", "b", "-", "m", "q", "t", "t">>,
      <<"h", "t", "t", "p", "/", "s", "t", "o", "m", "p", "-", "m", "q", "t", "t">>,
      <<"h", "t", "t", "p", "s", "/", "s", "t", "o", "m", "p", "-", "m", "q", "t", "t">>,
      <<"h", "t", "t", "p", "/", "p", "r", "o", "m", "e", "t", "h", "e", "u", "s">>,
      <<"h", "t", "t", "p", "s", "/", "p", "r", "o", "m", "e", "t", "h", "e", "u", "s">>,
      <<"h", "t", "t", "p">>,
      <<"h", "t", "t", "p", "s">>,
      <<"f", "a", "n", "o", "u", "t">>,
      <<"t", "o", "p", "i", "c">>,
      <<"d", "i", "r", "e", "c", "t">>,
      <<"h", "e", "a", "d", "e", "r", "s">>,
      <<"x", "-", "c", "o", "n", "s", "i", "s", "t", "e", "n", "t", "-", "h", "a", "s", "h">>,
      <<"x", "-", "m", "o", "d", "u", "l", "u", "s", "-", "h", "a", "s", "h">>,
      <<"x", "-", "r", "a", "n", "d", "o", "m">>,
      <<"x", "-", "j", "m", "s", "-", "t", "o", "p", "i", "c">>,
      <<"x", "-", "l", "o", "c", "a", "l", "-", "r", "a", "n", "d", "o", "m">>,
      <<"x", "-", "r", "e", "c", "e", "n", "t", "-", "h", "i", "s", "t", "o", "r", "y">>,
      <<"x", "-", "d", "e", "l", "a", "y", "e", "d", "-", "m", "e", "s", "s", "a", "g", "e">>,
      <<"x", "-", "m", "e", "s", "s", "a", "g", "e", "-", "d", "e", "d", "u", "p", "l", "i", "c", "a", "t", "i", "o", "n">>,
      <<"c", "l", "a", "s", "s", "i", "c">>,
      <<"q", "u", "o", "r", "u", "m">>,
      <<"q", "u", "e", "u", "e">>,
      <<"e", "x", "c", "h", "a", "n", "g", "e">>,
      <<"q", "u", "e", "u", "e", "s">>,
      <<"c", "l", "a", "s", "s", "i", "c", "_", "q", "u", "e", "u", "e", "s">>,
      <<"q", "u", "o", "r", "u", "m", "_", "q", "u", "e", "u", "e", "s">>,
      <<"s", "t", "r", "e", "a", "m", "s">>,
      <<"e", "x", "c", "h", "a", "n", "g", "e", "s">>,
      <<"a", "l", "l">>,
      <<"m", "a", "x", "-", "c", "o", "n", "n", "e", "c", "t", "i", "o", "n", "s">>,
      <<"m", "a", "x", "-", "q", "u", "e", "u", "e", "s">>,
      <<"m", "a", "x", "-", "c", "h", "a", "n", "n", "e", "l", "s">> }

\* strings no table of commons.rs matches on
UnknownChars ==
    { <<>>,
      <<"x", "-", "c", "u", "s", "t", "o", "m">>,
      <<"a", "m", "q", "p", "/", "s", "s", "l">>,
      <<"h", "t", "t", "p", "/", "w", "e", "b", "-", "s", "t", "o", "m", "p">>,
      <<"h", "t", "t", "p", "s", "/", "w", "e", "b", "-", "s", "t", "o", "m", "p">>,
      <<"v", "h", "o", "s", "t", "s">>,
      <<"m", "a", "x", "-", "m", "e", "m", "o", "r", "y">>,
      <<"x">> }

CaseAndPaddingVariants(cs) ==
    { AsciiUpper(cs), Capitalize(cs), <<" ">> \o cs, cs \o <<" ">>,
      <<" ">> \o cs \o <<" ">> }

InputChars ==
    CanonicalChars \cup UnknownChars
        \cup UNION { CaseAndPaddingVariants(cs) : cs \in CanonicalChars }

InputStrings == { Str(cs) : cs \in InputChars }

(***************************************************************************)
(* Enumeration values.  A value of an enum is a record naming the enum and *)
(* the variant; data is the String a newtype variant carries (Other,       *)
(* Plugin) and "" for a unit variant.                                      *)
(***************************************************************************)
Unit(e, n) == [enum |-> e, name |-> n, data |-> ""]
Newtype(e, n, s) == [enum |-> e, name |-> n, data |-> s]

(***************************************************************************)
(* commons.rs: SupportedProtocol                                           *)
(***************************************************************************)
\* the unit variants of SupportedProtocol, in declaration order
SupportedProtocolVariants ==
    { "Clustering", "AMQP", "AMQPWithTLS",
      "Stream", "StreamWithTLS", "MQTT",
      "MQTTWithTLS", "STOMP", "STOMPWithTLS",
      "MQTTOverWebSockets", "MQTTOverWebSocketsWithTLS", "STOMPOverWebsockets",
      "STOMPOverWebsocketsWithTLS", "Prometheus", "PrometheusWithTLS",
      "HTTP", "HTTPWithTLS" }

SupportedProtocolKnown == { Unit("SupportedProtocol", n) : n \in SupportedProtocolVariants }

Other(s) == Newtype("SupportedProtocol", "Other", s)

SUPPORTED_PROTOCOL_CLUSTERING == "clustering"
SUPPORTED_PROTOCOL_AMQP == "amqp"
SUPPORTED_PROTOCOL_AMQP_WITH_TLS == "amqps"
SUPPORTED_PROTOCOL_STREAM == "stream"
SUPPORTED_PROTOCOL_STREAM_WITH_TLS == "stream/ssl"
SUPPORTED_PROTOCOL_MQTT == "mqtt"
SUPPORTED_PROTOCOL_MQTT_WITH_TLS == "mqtt/ssl"
SUPPORTED_PROTOCOL_MQTT_OVER_WEBSOCKETS == "http/web-mqtt"
SUPPORTED_PROTOCOL_MQTT_OVER_WEBSOCKETS_WITH_TLS == "https/web-mqtt"
SUPPORTED_PROTOCOL_STOMP == "stomp"
SUPPORTED_PROTOCOL_STOMP_WITH_TLS == "stomp/ssl"
SUPPORTED_PROTOCOL_STOMP_OVER_WEBSOCKETS == "http/stomp-mqtt"
SUPPORTED_PROTOCOL_STOMP_OVER_WEBSOCKETS_WITH_TLS == "https/stomp-mqtt"
SUPPORTED_PROTOCOL_PROMETHEUS == "http/prometheus"
SUPPORTED_PROTOCOL_PROMETHEUS_WITH_TLS == "https/prometheus"
SUPPORTED_PROTOCOL_HTTP == "http"
SUPPORTED_PROTOCOL_HTTP_WITH_TLS == "https"

\* impl From<&str> for SupportedProtocol
SupportedProtocol_from_str(value) ==
    IF value = SUPPORTED_PROTOCOL_CLUSTERING THEN Unit("SupportedProtocol", "Clustering")
    ELSE IF value = SUPPORTED_PROTOCOL_AMQP THEN Unit("SupportedProtocol", "AMQP")
    ELSE IF value = SUPPORTED_PROTOCOL_AMQP_WITH_TLS THEN Unit("SupportedProtocol", "AMQPWithTLS")
    ELSE IF value = SUPPORTED_PROTOCOL_STREAM THEN Unit("SupportedProtocol", "Stream")
    ELSE IF value = SUPPORTED_PROTOCOL_STREAM_WITH_TLS THEN Unit("SupportedProtocol", "StreamWithTLS")
    ELSE IF value = SUPPORTED_PROTOCOL_MQTT THEN Unit("SupportedProtocol", "MQTT")
    ELSE IF value = SUPPORTED_PROTOCOL_MQTT_WITH_TLS THEN Unit("SupportedProtocol", "MQTTWithTLS")
    ELSE IF value = SUPPORTED_PROTOCOL_STOMP THEN Unit("SupportedProtocol", "STOMP")
    ELSE IF value = SUPPORTED_PROTOCOL_STOMP_WITH_TLS THEN Unit("SupportedProtocol", "STOMPWithTLS")
    ELSE IF value = SUPPORTED_PROTOCOL_MQTT_OVER_WEBSOCKETS THEN Unit("SupportedProtocol", "MQTTOverWebSockets")
    ELSE IF value = SUPPORTED_PROTOCOL_MQTT_OVER_WEBSOCKETS_WITH_TLS THEN Unit("SupportedProtocol", "MQTTOverWebSocketsWithTLS")
    ELSE IF value = SUPPORTED_PROTOCOL_STOMP_OVER_WEBSOCKETS THEN Unit("SupportedProtocol", "STOMPOverWebsockets")
    ELSE IF value = SUPPORTED_PROTOCOL_STOMP_OVER_WEBSOCKETS_WITH_TLS THEN Unit("SupportedProtocol", "STOMPOverWebsocketsWithTLS")
    ELSE IF value = SUPPORTED_PROTOCOL_PROMETHEUS THEN Unit("SupportedProtocol", "Prometheus")
    ELSE IF value = SUPPORTED_PROTOCOL_PROMETHEUS_WITH_TLS THEN Unit("SupportedProtocol", "PrometheusWithTLS")
    ELSE IF value = SUPPORTED_PROTOCOL_HTTP THEN Unit("SupportedProtocol", "HTTP")
    ELSE IF value = SUPPORTED_PROTOCOL_HTTP_WITH_TLS THEN Unit("SupportedProtocol", "HTTPWithTLS")
    ELSE Other(value)

\* From<String> that also takes amqp/ssl for AMQP with TLS
SupportedProtocol_from_String_tls_alias(value) ==
    IF value = "amqp/ssl" THEN Unit("SupportedProtocol", "AMQPWithTLS")
    ELSE SupportedProtocol_from_str(value)

\* impl From<String> for SupportedProtocol
SupportedProtocol_from_String(value) == SupportedProtocol_from_str(value)

\* impl From<SupportedProtocol> for String
String_from_SupportedProtocol(value) ==
    IF value.name = "Clustering" THEN SUPPORTED_PROTOCOL_CLUSTERING
    ELSE IF value.name = "AMQP" THEN SUPPORTED_PROTOCOL_AMQP
    ELSE IF value.name = "AMQPWithTLS" THEN SUPPORTED_PROTOCOL_AMQP_WITH_TLS
    ELSE IF value.name = "Stream" THEN SUPPORTED_PROTOCOL_STREAM
    ELSE IF value.name = "StreamWithTLS" THEN SUPPORTED_PROTOCOL_STREAM_WITH_TLS
    ELSE IF value.name = "MQTT" THEN SUPPORTED_PROTOCOL_MQTT
    ELSE IF value.name = "MQTTWithTLS" THEN SUPPORTED_PROTOCOL_MQTT_WITH_TLS
    ELSE IF value.name = "STOMP" THEN SUPPORTED_PROTOCOL_STOMP
    ELSE IF value.name = "STOMPWithTLS" THEN SUPPORTED_PROTOCOL_STOMP_WITH_TLS
    ELSE IF value.name = "MQTTOverWebSockets" THEN SUPPORTED_PROTOCOL_MQTT_OVER_WEBSOCKETS
    ELSE IF value.name = "MQTTOverWebSocketsWithTLS" THEN SUPPORTED_PROTOCOL_MQTT_OVER_WEBSOCKETS_WITH_TLS
    ELSE IF value.name = "STOMPOverWebsockets" THEN SUPPORTED_PROTOCOL_STOMP_OVER_WEBSOCKETS
    ELSE IF value.name = "STOMPOverWebsocketsWithTLS" THEN SUPPORTED_PROTOCOL_STOMP_OVER_WEBSOCKETS_WITH_TLS
    ELSE IF value.name = "Prometheus" THEN SUPPORTED_PROTOCOL_PROMETHEUS
    ELSE IF value.name = "PrometheusWithTLS" THEN SUPPORTED_PROTOCOL_PROMETHEUS_WITH_TLS
    ELSE IF value.name = "HTTP" THEN SUPPORTED_PROTOCOL_HTTP
    ELSE IF value.name = "HTTPWithTLS" THEN SUPPORTED_PROTOCOL_HTTP_WITH_TLS
    ELSE value.data

\* impl From<&SupportedProtocol> for String
String_from_SupportedProtocol_ref(value) ==
    IF value.name = "Clustering" THEN SUPPORTED_PROTOCOL_CLUSTERING
    ELSE IF value.name = "AMQP" THEN SUPPORTED_PROTOCOL_AMQP
    ELSE IF value.name = "AMQPWithTLS" THEN SUPPORTED_PROTOCOL_AMQP_WITH_TLS
    ELSE IF value.name = "Stream" THEN SUPPORTED_PROTOCOL_STREAM
    ELSE IF value.name = "StreamWithTLS" THEN SUPPORTED_PROTOCOL_STREAM_WITH_TLS
    ELSE IF value.name = "MQTT" THEN SUPPORTED_PROTOCOL_MQTT
    ELSE IF value.name = "MQTTWithTLS" THEN SUPPORTED_PROTOCOL_MQTT_WITH_TLS
    ELSE IF value.name = "STOMP" THEN SUPPORTED_PROTOCOL_STOMP
    ELSE IF value.name = "STOMPWithTLS" THEN SUPPORTED_PROTOCOL_STOMP_WITH_TLS
    ELSE IF value.name = "MQTTOverWebSockets" THEN SUPPORTED_PROTOCOL_MQTT_OVER_WEBSOCKETS
    ELSE IF value.name = "MQTTOverWebSocketsWithTLS" THEN SUPPORTED_PROTOCOL_MQTT_OVER_WEBSOCKETS_WITH_TLS
    ELSE IF value.name = "STOMPOverWebsockets" THEN SUPPORTED_PROTOCOL_STOMP_OVER_WEBSOCKETS
    ELSE IF value.name = "STOMPOverWebsocketsWithTLS" THEN SUPPORTED_PROTOCOL_STOMP_OVER_WEBSOCKETS_WITH_TLS
    ELSE IF value.name = "Prometheus" THEN SUPPORTED_PROTOCOL_PROMETHEUS
    ELSE IF value.name = "PrometheusWithTLS" THEN SUPPORTED_PROTOCOL_PROMETHEUS_WITH_TLS
    ELSE IF value.name = "HTTP" THEN SUPPORTED_PROTOCOL_HTTP
    ELSE IF value.name = "HTTPWithTLS" THEN SUPPORTED_PROTOCOL_HTTP_WITH_TLS
    ELSE value.data

\* Display writing a fixed word for the protocols it does not know
SupportedProtocol_fmt_other_unnamed(self) ==
    IF self.name = "Other" THEN "other" ELSE String_from_SupportedProtocol_ref(self)

\* impl fmt::Display for SupportedProtocol
SupportedProtocol_fmt(self) == String_from_SupportedProtocol_ref(self)

(***************************************************************************)
(* commons.rs: ExchangeType                                                *)
(***************************************************************************)
ExchangeTypeVariants ==
    { "Fanout", "Topic", "Direct", "Headers",
      "ConsistentHashing", "ModulusHash", "Random", "LocalRandom",
      "JmsTopic", "RecentHistory", "DelayedMessage", "MessageDeduplication" }

ExchangeTypeKnown == { Unit("ExchangeType", n) : n \in ExchangeTypeVariants }

Plugin(s) == Newtype("ExchangeType", "Plugin", s)

EXCHANGE_TYPE_FANOUT == "fanout"
EXCHANGE_TYPE_TOPIC == "topic"
EXCHANGE_TYPE_DIRECT == "direct"
EXCHANGE_TYPE_HEADERS == "headers"
EXCHANGE_TYPE_CONSISTENT_HASHING == "x-consistent-hash"
EXCHANGE_TYPE_MODULUS_HASH == "x-modulus-hash"
EXCHANGE_TYPE_RANDOM == "x-random"
EXCHANGE_TYPE_JMS_TOPIC == "x-jms-topic"
EXCHANGE_TYPE_LOCAL_RANDOM == "x-local-random"
EXCHANGE_TYPE_RECENT_HISTORY == "x-recent-history"
EXCHANGE_TYPE_DELAYED_MESSAGE == "x-delayed-message"
EXCHANGE_TYPE_MESSAGE_DEDUPLICATION == "x-message-deduplication"

\* impl From<&str> for ExchangeType
ExchangeType_from_str(value) ==
    IF value = EXCHANGE_TYPE_FANOUT THEN Unit("ExchangeType", "Fanout")
    ELSE IF value = EXCHANGE_TYPE_TOPIC THEN Unit("ExchangeType", "Topic")
    ELSE IF value = EXCHANGE_TYPE_DIRECT THEN Unit("ExchangeType", "Direct")
    ELSE IF value = EXCHANGE_TYPE_HEADERS THEN Unit("ExchangeType", "Headers")
    ELSE IF value = EXCHANGE_TYPE_CONSISTENT_HASHING THEN Unit("ExchangeType", "ConsistentHashing")
    ELSE IF value = EXCHANGE_TYPE_MODULUS_HASH THEN Unit("ExchangeType", "ModulusHash")
    ELSE IF value = EXCHANGE_TYPE_RANDOM THEN Unit("ExchangeType", "Random")
    ELSE IF value = EXCHANGE_TYPE_LOCAL_RANDOM THEN Unit("ExchangeType", "LocalRandom")
    ELSE IF value = EXCHANGE_TYPE_JMS_TOPIC THEN Unit("ExchangeType", "JmsTopic")
    ELSE IF value = EXCHANGE_TYPE_RECENT_HISTORY THEN Unit("ExchangeType", "RecentHistory")
    ELSE IF value = EXCHANGE_TYPE_DELAYED_MESSAGE THEN Unit("ExchangeType", "DelayedMessage")
    ELSE IF value = EXCHANGE_TYPE_MESSAGE_DEDUPLICATION THEN Unit("ExchangeType", "MessageDeduplication")
    ELSE Plugin(value)

\* impl From<String> for ExchangeType
ExchangeType_from_String(value) == ExchangeType_from_str(value)

\* String_from_ExchangeType returning the name of the variant for a Plugin
String_from_ExchangeType_plugin_name(value) ==
    IF value.name = "Fanout" THEN EXCHANGE_TYPE_FANOUT
    ELSE IF value.name = "Topic" THEN EXCHANGE_TYPE_TOPIC
    ELSE IF value.name = "Direct" THEN EXCHANGE_TYPE_DIRECT
    ELSE IF value.name = "Headers" THEN EXCHANGE_TYPE_HEADERS
    ELSE IF value.name = "ConsistentHashing" THEN EXCHANGE_TYPE_CONSISTENT_HASHING
    ELSE IF value.name = "ModulusHash" THEN EXCHANGE_TYPE_MODULUS_HASH
    ELSE IF value.name = "Random" THEN EXCHANGE_TYPE_RANDOM
    ELSE IF value.name = "LocalRandom" THEN EXCHANGE_TYPE_LOCAL_RANDOM
    ELSE IF value.name = "JmsTopic" THEN EXCHANGE_TYPE_JMS_TOPIC
    ELSE IF value.name = "RecentHistory" THEN EXCHANGE_TYPE_RECENT_HISTORY
    ELSE IF value.name = "DelayedMessage" THEN EXCHANGE_TYPE_DELAYED_MESSAGE
    ELSE IF value.name = "MessageDeduplication" THEN EXCHANGE_TYPE_MESSAGE_DEDUPLICATION
    ELSE "plugin"

\* impl From<ExchangeType> for String
String_from_ExchangeType(value) ==
    IF value.name = "Fanout" THEN EXCHANGE_TYPE_FANOUT
    ELSE IF value.name = "Topic" THEN EXCHANGE_TYPE_TOPIC
    ELSE IF value.name = "Direct" THEN EXCHANGE_TYPE_DIRECT
    ELSE IF value.name = "Headers" THEN EXCHANGE_TYPE_HEADERS
    ELSE IF value.name = "ConsistentHashing" THEN EXCHANGE_TYPE_CONSISTENT_HASHING
    ELSE IF value.name = "ModulusHash" THEN EXCHANGE_TYPE_MODULUS_HASH
    ELSE IF value.name = "Random" THEN EXCHANGE_TYPE_RANDOM
    ELSE IF value.name = "LocalRandom" THEN EXCHANGE_TYPE_LOCAL_RANDOM
    ELSE IF value.name = "JmsTopic" THEN EXCHANGE_TYPE_JMS_TOPIC
    ELSE IF value.name = "RecentHistory" THEN EXCHANGE_TYPE_RECENT_HISTORY
    ELSE IF value.name = "DelayedMessage" THEN EXCHANGE_TYPE_DELAYED_MESSAGE
    ELSE IF value.name = "MessageDeduplication" THEN EXCHANGE_TYPE_MESSAGE_DEDUPLICATION
    ELSE value.data

(***************************************************************************)
(* commons.rs: QueueType                                                   *)
(***************************************************************************)
QueueTypeVariants == { "Classic", "Quorum", "Stream" }

QueueTypeKnown == { Unit("QueueType", n) : n \in QueueTypeVariants }

\* QueueType::from(&str) comparing without regard to letter case
QueueType_from_str_ignore_case(value) ==
    IF value \in { "classic", "Classic", "CLASSIC" } THEN Unit("QueueType", "Classic")
    ELSE IF value \in { "quorum", "Quorum", "QUORUM" } THEN Unit("QueueType", "Quorum")
    ELSE IF value \in { "stream", "Stream", "STREAM" } THEN Unit("QueueType", "Stream")
    ELSE Unit("QueueType", "Classic")

\* impl From<&str> for QueueType
QueueType_from_str(value) ==
    IF value = "classic" THEN Unit("QueueType", "Classic")
    ELSE IF value = "quorum" THEN Unit("QueueType", "Quorum")
    ELSE IF value = "stream" THEN Unit("QueueType", "Stream")
    ELSE Unit("QueueType", "Classic")

\* impl From<String> for QueueType
QueueType_from_String(value) ==
    IF value = "classic" THEN Unit("QueueType", "Classic")
    ELSE IF value = "quorum" THEN Unit("QueueType", "Quorum")
    ELSE IF value = "stream" THEN Unit("QueueType", "Stream")
    ELSE Unit("QueueType", "Classic")

\* impl From<QueueType> for String
String_from_QueueType(value) ==
    IF value.name = "Classic" THEN "classic"
    ELSE IF value.name = "Quorum" THEN "quorum"
    ELSE "stream"

(***************************************************************************)
(* commons.rs: BindingDestinationType                                      *)
(***************************************************************************)
BindingDestinationTypeVariants == { "Queue", "Exchange" }

BindingDestinationTypeKnown == { Unit("BindingDestinationType", n) : n \in BindingDestinationTypeVariants }

\* impl From<&str> for BindingDestinationType
BindingDestinationType_from_str(value) ==
    IF value = "queue" THEN Unit("BindingDestinationType", "Queue")
    ELSE IF value = "exchange" THEN Unit("BindingDestinationType", "Exchange")
    ELSE Unit("BindingDestinationType", "Queue")

\* impl From<String> for BindingDestinationType
BindingDestinationType_from_String(value) ==
    IF value = "queue" THEN Unit("BindingDestinationType", "Queue")
    ELSE IF value = "exchange" THEN Unit("BindingDestinationType", "Exchange")
    ELSE Unit("BindingDestinationType", "Queue")

\* impl From<BindingDestinationType> for String
String_from_BindingDestinationType(value) ==
    IF value.name = "Queue" THEN "queue"
    ELSE "exchange"

\* impl fmt::Display for BindingDestinationType
BindingDestinationType_fmt(self) ==
    IF self.name = "Queue" THEN "queue"
    ELSE "exchange"

(***************************************************************************)
(* commons.rs: PolicyTarget                                                *)
(***************************************************************************)
PolicyTargetVariants == { "Queues", "ClassicQueues", "QuorumQueues", "Streams", "Exchanges", "All" }

PolicyTargetKnown == { Unit("PolicyTarget", n) : n \in PolicyTargetVariants }

\* impl From<&str> for PolicyTarget
PolicyTarget_from_str(value) ==
    IF value = "queues" THEN Unit("PolicyTarget", "Queues")
    ELSE IF value = "classic_queues" THEN Unit("PolicyTarget", "ClassicQueues")
    ELSE IF value = "quorum_queues" THEN Unit("PolicyTarget", "QuorumQueues")
    ELSE IF value = "streams" THEN Unit("PolicyTarget", "Streams")
    ELSE IF value = "exchanges" THEN Unit("PolicyTarget", "Exchanges")
    ELSE IF value = "all" THEN Unit("PolicyTarget", "All")
    ELSE Unit("PolicyTarget", "Queues")

\* impl From<String> for PolicyTarget
PolicyTarget_from_String(value) ==
    IF value = "queues" THEN Unit("PolicyTarget", "Queues")
    ELSE IF value = "classic_queues" THEN Unit("PolicyTarget", "ClassicQueues")
    ELSE IF value = "quorum_queues" THEN Unit("PolicyTarget", "QuorumQueues")
    ELSE IF value = "streams" THEN Unit("PolicyTarget", "Streams")
    ELSE IF value = "exchanges" THEN Unit("PolicyTarget", "Exchanges")
    ELSE IF value = "all" THEN Unit("PolicyTarget", "All")
    ELSE Unit("PolicyTarget", "Queues")

\* String_from_PolicyTarget with the scope of classic queues spelled with a hyphen
String_from_PolicyTarget_hyphenated(value) ==
    IF value.name = "Queues" THEN "queues"
    ELSE IF value.name = "ClassicQueues" THEN "classic-queues"
    ELSE IF value.name = "QuorumQueues" THEN "quorum_queues"
    ELSE IF value.name = "Streams" THEN "streams"
    ELSE IF value.name = "Exchanges" THEN "exchanges"
    ELSE "all"

\* impl From<PolicyTarget> for String
String_from_PolicyTarget(value) ==
    IF value.name = "Queues" THEN "queues"
    ELSE IF value.name = "ClassicQueues" THEN "classic_queues"
    ELSE IF value.name = "QuorumQueues" THEN "quorum_queues"
    ELSE IF value.name = "Streams" THEN "streams"
    ELSE IF value.name = "Exchanges" THEN "exchanges"
    ELSE "all"

\* impl fmt::Display for PolicyTarget
PolicyTarget_fmt(self) == String_from_PolicyTarget(self)

(***************************************************************************)
(* commons.rs: VirtualHostLimitTarget                                      *)
(***************************************************************************)
VirtualHostLimitTargetVariants == { "MaxConnections", "MaxQueues" }

VirtualHostLimitTargetKnown == { Unit("VirtualHostLimitTarget", n) : n \in VirtualHostLimitTargetVariants }

\* impl From<&str> for VirtualHostLimitTarget
VirtualHostLimitTarget_from_str(value) ==
    IF value = "max-connections" THEN Unit("VirtualHostLimitTarget", "MaxConnections")
    ELSE IF value = "max-queues" THEN Unit("VirtualHostLimitTarget", "MaxQueues")
    ELSE Unit("VirtualHostLimitTarget", "MaxConnections")

\* impl From<String> for VirtualHostLimitTarget
VirtualHostLimitTarget_from_String(value) ==
    IF value = "max-connections" THEN Unit("VirtualHostLimitTarget", "MaxConnections")
    ELSE IF value = "max-queues" THEN Unit("VirtualHostLimitTarget", "MaxQueues")
    ELSE Unit("VirtualHostLimitTarget", "MaxConnections")

\* VirtualHostLimitTarget::as_ref with the string of MaxConnections in both arms
VirtualHostLimitTarget_as_ref_same_key(self) ==
    IF self.name = "MaxConnections" THEN "max-connections"
    ELSE "max-connections"

\* impl AsRef<str> for VirtualHostLimitTarget
VirtualHostLimitTarget_as_ref(self) ==
    IF self.name = "MaxConnections" THEN "max-connections"
    ELSE "max-queues"

\* impl From<VirtualHostLimitTarget> for String
String_from_VirtualHostLimitTarget(value) == VirtualHostLimitTarget_as_ref(value)

(***************************************************************************)
(* commons.rs: UserLimitTarget                                             *)
(***************************************************************************)
UserLimitTargetVariants == { "MaxConnections", "MaxChannels" }

UserLimitTargetKnown == { Unit("UserLimitTarget", n) : n \in UserLimitTargetVariants }

\* impl From<&str> for UserLimitTarget
UserLimitTarget_from_str(value) ==
    IF value = "max-connections" THEN Unit("UserLimitTarget", "MaxConnections")
    ELSE IF value = "max-channels" THEN Unit("UserLimitTarget", "MaxChannels")
    ELSE Unit("UserLimitTarget", "MaxConnections")

\* UserLimitTarget::from(String) with MaxChannels as the fallback arm
UserLimitTarget_from_String_default_channels(value) ==
    IF value = "max-connections" THEN Unit("UserLimitTarget", "MaxConnections")
    ELSE IF value = "max-channels" THEN Unit("UserLimitTarget", "MaxChannels")
    ELSE Unit("UserLimitTarget", "MaxChannels")

\* impl From<String> for UserLimitTarget
UserLimitTarget_from_String(value) ==
    IF value = "max-connections" THEN Unit("UserLimitTarget", "MaxConnections")
    ELSE IF value = "max-channels" THEN Unit("UserLimitTarget", "MaxChannels")
    ELSE Unit("UserLimitTarget", "MaxConnections")

\* impl AsRef<str> for UserLimitTarget
UserLimitTarget_as_ref(self) ==
    IF self.name = "MaxConnections" THEN "max-connections"
    ELSE "max-channels"

\* impl From<UserLimitTarget> for String
String_from_UserLimitTarget(value) == UserLimitTarget_as_ref(value)

(***************************************************************************)
(* serde_json::Value, Option and Result.                                   *)
(***************************************************************************)
\* a value is a record of one field, named after the kind of the value
JNull == [null |-> TRUE]
JString(s) == [string |-> s]
JNumber(n) == [number |-> n]
JObject(m) == [object |-> m]

IsNull(json) == "null" \in DOMAIN json
IsString(json) == "string" \in DOMAIN json
IsNumber(json) == "number" \in DOMAIN json
IsObject(json) == "object" \in DOMAIN json

None == [some |-> FALSE]
Some(x) == [some |-> TRUE, v |-> x]

Ok(x) == [ok |-> TRUE, v |-> x]
Err(e) == [ok |-> FALSE, err |-> e]

\* serde_json::Map<String, Value>: a map from keys to values
Map_new == <<>>

\* Map::insert: the entry of key k becomes v, whatever it was
Map_insert(m, k, v) == [x \in DOMAIN m \cup {k} |-> IF x = k THEN v ELSE m[x]]

\* Map::append leaving self as it was
Map_append_drop_other(self, other) == self

\* Map::append keeping the entry of self under a key both maps have
Map_append_keep_existing(self, other) ==
    [x \in DOMAIN self \cup DOMAIN other |->
        IF x \in DOMAIN self THEN self[x] ELSE other[x]]

\* Map::append: every entry of other is moved into self; an entry of self
\* under a key of other is overwritten
Map_append(self, other) ==
    [x \in DOMAIN self \cup DOMAIN other |->
        IF x \in DOMAIN other THEN other[x] ELSE self[x]]

(***************************************************************************)
(* serde's derived encodings of the enumerations.                          *)
(***************************************************************************)
\* the identifiers of the variants that carry no #[serde(rename)] of their own
IdentChars ==
    ("Clustering" :> <<"C", "l", "u", "s", "t", "e", "r", "i", "n", "g">>) @@
    ("Other" :> <<"O", "t", "h", "e", "r">>) @@
    ("Fanout" :> <<"F", "a", "n", "o", "u", "t">>) @@
    ("Topic" :> <<"T", "o", "p", "i", "c">>) @@
    ("Direct" :> <<"D", "i", "r", "e", "c", "t">>) @@
    ("Headers" :> <<"H", "e", "a", "d", "e", "r", "s">>) @@
    ("Plugin" :> <<"P", "l", "u", "g", "i", "n">>) @@
    ("Classic" :> <<"C", "l", "a", "s", "s", "i", "c">>) @@
    ("Quorum" :> <<"Q", "u", "o", "r", "u", "m">>) @@
    ("Stream" :> <<"S", "t", "r", "e", "a", "m">>) @@
    ("Queue" :> <<"Q", "u", "e", "u", "e">>) @@
    ("Exchange" :> <<"E", "x", "c", "h", "a", "n", "g", "e">>) @@
    ("Queues" :> <<"Q", "u", "e", "u", "e", "s">>) @@
    ("ClassicQueues" :> <<"C", "l", "a", "s", "s", "i", "c", "Q", "u", "e", "u", "e", "s">>) @@
    ("QuorumQueues" :> <<"Q", "u", "o", "r", "u", "m", "Q", "u", "e", "u", "e", "s">>) @@
    ("Streams" :> <<"S", "t", "r", "e", "a", "m", "s">>) @@
    ("Exchanges" :> <<"E", "x", "c", "h", "a", "n", "g", "e", "s">>) @@
    ("All" :> <<"A", "l", "l">>) @@
    ("MaxConnections" :> <<"M", "a", "x", "C", "o", "n", "n", "e", "c", "t", "i", "o", "n", "s">>) @@
    ("MaxQueues" :> <<"M", "a", "x", "Q", "u", "e", "u", "e", "s">>) @@
    ("MaxChannels" :> <<"M", "a", "x", "C", "h", "a", "n", "n", "e", "l", "s">>)

\* #[serde(rename_all = ...)]: the rule applied to a variant's identifier
RenameRule_apply_to_variant(rule, ident) ==
    LET snake == [i \in 1..Len(ident) |->
                    IF i > 1 /\ IsUpper(ident[i])
                    THEN "_" \o CharLower(ident[i])
                    ELSE CharLower(ident[i])]
        kebab == [i \in 1..Len(ident) |->
                    IF i > 1 /\ IsUpper(ident[i])
                    THEN "-" \o CharLower(ident[i])
                    ELSE CharLower(ident[i])]
    IN  IF rule = "PascalCase" THEN Str(ident)
        ELSE IF rule = "lowercase" THEN Str(AsciiLower(ident))
        ELSE IF rule = "snake_case" THEN Str(snake)
        ELSE Str(kebab)

\* QueueType serialized under the identifier of the variant
QueueType_serialize_variant_name(self) == JString(self.name)

\* #[derive(Serialize)] #[serde(rename_all(serialize = "lowercase"))] enum QueueType
QueueType_serialize(self) ==
    JString(RenameRule_apply_to_variant("lowercase", IdentChars[self.name]))

\* a derived Deserialize of an enum of unit variants: the payload must be a
\* string equal to the renamed identifier of a variant
UnitEnum_deserialize(enum, variants, rule, json) ==
    IF IsString(json)
          /\ \E n \in variants :
                RenameRule_apply_to_variant(rule, IdentChars[n]) = json.string
    THEN Ok(Unit(enum, CHOOSE n \in variants :
                          RenameRule_apply_to_variant(rule, IdentChars[n]) = json.string))
    ELSE Err("unknown variant")

\* #[derive(Deserialize)] #[serde(rename_all = "snake_case")] enum PolicyTarget
PolicyTarget_deserialize(json) ==
    UnitEnum_deserialize("PolicyTarget", PolicyTargetVariants, "snake_case", json)

\* #[derive(Deserialize)] #[serde(rename_all = "lowercase")] enum BindingDestinationType
BindingDestinationType_deserialize(json) ==
    UnitEnum_deserialize("BindingDestinationType", BindingDestinationTypeVariants,
                         "lowercase", json)

(***************************************************************************)
(* commons.rs: the derived Serialize and Deserialize of the enumerations   *)
(***************************************************************************)
\* #[serde(rename = "...")] on the variants of SupportedProtocol
SupportedProtocol_rename ==
    ("AMQP" :> "amqp") @@ ("AMQPWithTLS" :> "amqp/ssl") @@ ("Stream" :> "stream") @@
    ("StreamWithTLS" :> "stream/ssl") @@ ("MQTT" :> "mqtt") @@
    ("MQTTWithTLS" :> "mqtt/ssl") @@ ("STOMP" :> "stomp") @@
    ("STOMPWithTLS" :> "stomp/ssl") @@ ("MQTTOverWebSockets" :> "http/web-mqtt") @@
    ("MQTTOverWebSocketsWithTLS" :> "https/web-mqtt") @@
    ("STOMPOverWebsockets" :> "http/web-stomp") @@
    ("STOMPOverWebsocketsWithTLS" :> "https/web-stomp") @@
    ("Prometheus" :> "http/prometheus") @@ ("PrometheusWithTLS" :> "https/prometheus") @@
    ("HTTP" :> "http") @@ ("HTTPWithTLS" :> "https")

\* #[serde(rename = "...")] on the variants of ExchangeType
ExchangeType_rename ==
    ("ConsistentHashing" :> "x-consistent-hash") @@ ("ModulusHash" :> "x-modulus-hash") @@
    ("Random" :> "x-random") @@ ("LocalRandom" :> "x-local-random") @@
    ("JmsTopic" :> "x-jms-topic") @@ ("RecentHistory" :> "x-recent-history") @@
    ("DelayedMessage" :> "x-delayed-message") @@
    ("MessageDeduplication" :> "x-message-deduplication")

SerdeEnums ==
    { "SupportedProtocol", "ExchangeType", "QueueType", "BindingDestinationType",
      "PolicyTarget", "VirtualHostLimitTarget", "UserLimitTarget" }

\* the renamed variants of each enumeration
EnumRename ==
    [e \in SerdeEnums |->
        IF e = "SupportedProtocol" THEN SupportedProtocol_rename
        ELSE IF e = "ExchangeType" THEN ExchangeType_rename
        ELSE <<>>]

\* #[serde(rename_all ...)] of each enumeration
EnumRenameAll ==
    [e \in SerdeEnums |->
        IF e \in { "SupportedProtocol", "ExchangeType", "QueueType" }
        THEN [serialize |-> "lowercase", deserialize |-> "PascalCase"]
        ELSE IF e = "BindingDestinationType"
        THEN [serialize |-> "lowercase", deserialize |-> "lowercase"]
        ELSE IF e = "PolicyTarget"
        THEN [serialize |-> "snake_case", deserialize |-> "snake_case"]
        ELSE [serialize |-> "kebab-case", deserialize |-> "kebab-case"]]

\* the name serde gives a variant in one direction: its rename, or the
\* rename_all rule of the direction applied to its identifier
variant_name(e, variant, direction) ==
    IF variant \in DOMAIN EnumRename[e] THEN EnumRename[e][variant]
    ELSE RenameRule_apply_to_variant(EnumRenameAll[e][direction], IdentChars[variant])

\* the unit variants of each enumeration
UnitVariants ==
    [e \in SerdeEnums |->
        IF e = "SupportedProtocol" THEN SupportedProtocolKnown
        ELSE IF e = "ExchangeType" THEN ExchangeTypeKnown
        ELSE IF e = "QueueType" THEN QueueTypeKnown
        ELSE IF e = "BindingDestinationType" THEN BindingDestinationTypeKnown
        ELSE IF e = "PolicyTarget" THEN PolicyTargetKnown
        ELSE IF e = "VirtualHostLimitTarget" THEN VirtualHostLimitTargetKnown
        ELSE UserLimitTargetKnown]

\* #[derive(Serialize)]: a unit variant is its name, the newtype variant Other
\* an object of one entry under its name, the untagged variant Plugin its
\* string alone, and a unit variant of the untagged UserLimitTarget is null
Enum_serialize(self) ==
    IF self.enum = "UserLimitTarget" THEN JNull
    ELSE IF self.name = "Plugin" THEN JString(self.data)
    ELSE IF self.name = "Other"
    THEN JObject([k \in { variant_name(self.enum, "Other", "serialize") } |->
                    JString(self.data)])
    ELSE JString(variant_name(self.enum, self.name, "serialize"))

\* the unit variant a name read from the payload stands for
variant_named(e, name) ==
    { v \in UnitVariants[e] : variant_name(e, v.name, "deserialize") = name }

\* #[derive(Deserialize)]: a string, or an object of one entry with null
\* under it, is the unit variant of that name; an object of one entry under
\* the name of Other is Other of the string under it; what is no variant is
\* Plugin of the payload when that is a string and an error otherwise.  The
\* untagged UserLimitTarget is the first variant that accepts the payload,
\* and a unit variant accepts null.
Enum_deserialize(e, json) ==
    IF e = "UserLimitTarget"
    THEN IF IsNull(json) THEN Ok(Unit("UserLimitTarget", "MaxConnections"))
         ELSE Err("data did not match any variant of untagged enum UserLimitTarget")
    ELSE IF IsString(json) /\ variant_named(e, json.string) # {}
    THEN Ok(CHOOSE v \in variant_named(e, json.string) : TRUE)
    ELSE IF /\ IsObject(json)
            /\ Cardinality(DOMAIN json.object) = 1
            /\ \E k \in DOMAIN json.object :
                 variant_named(e, k) # {} /\ IsNull(json.object[k])
    THEN Ok(CHOOSE v \in UnitVariants[e] :
               variant_name(e, v.name, "deserialize") \in DOMAIN json.object)
    ELSE IF /\ e = "SupportedProtocol"
            /\ IsObject(json)
            /\ DOMAIN json.object = { variant_name(e, "Other", "deserialize") }
            /\ IsString(json.object[variant_name(e, "Other", "deserialize")])
    THEN Ok(Other(json.object[variant_name(e, "Other", "deserialize")].string))
    ELSE IF e = "ExchangeType" /\ IsString(json) THEN Ok(Plugin(json.string))
    ELSE Err("unknown variant")

(***************************************************************************)
(* requests.rs: QueueParams                                                *)
(***************************************************************************)
\* combined_args passing None through without a map
combined_args_none_unmarked(optional_args, queue_type) ==
    IF optional_args.some
    THEN Some(Map_append(Map_insert(Map_new, "x-queue-type",
                                    QueueType_serialize(queue_type)),
                         optional_args.v))
    ELSE None

\* combined_args inserting the marker after the caller's entries
combined_args_marker_last(optional_args, queue_type) ==
    LET copied == IF optional_args.some
                  THEN Map_append(Map_new, optional_args.v)
                  ELSE Map_new
    IN  Some(Map_insert(copied, "x-queue-type", QueueType_serialize(queue_type)))

\* QueueParams::combined_args
combined_args(optional_args, queue_type) ==
    LET marked == Map_insert(Map_new, "x-queue-type", QueueType_serialize(queue_type))
        result == IF optional_args.some
                  THEN Map_append(marked, optional_args.v)
                  ELSE marked
    IN  Some(result)

\* struct QueueParams
QueueParams(name, queue_type, durable, auto_delete, exclusive, arguments) ==
    [name |-> name, queue_type |-> queue_type, durable |-> durable,
     auto_delete |-> auto_delete, exclusive |-> exclusive, arguments |-> arguments]

\* QueueParams::new_quorum_queue
new_quorum_queue(name, optional_args) ==
    LET typ == Unit("QueueType", "Quorum")
        args == combined_args(optional_args, typ)
    IN  QueueParams(name, Unit("QueueType", "Quorum"), TRUE, FALSE, FALSE, args)

\* new_stream handing the caller's arguments on as they are
new_stream_args_passed_through(name, optional_args) ==
    QueueParams(name, Unit("QueueType", "Stream"), TRUE, FALSE, FALSE, optional_args)

\* QueueParams::new_stream
new_stream(name, optional_args) ==
    LET typ == Unit("QueueType", "Stream")
        args == combined_args(optional_args, typ)
    IN  QueueParams(name, Unit("QueueType", "Stream"), TRUE, FALSE, FALSE, args)

\* new_durable_classic_queue declaring the queue exclusive
new_durable_classic_queue_exclusive(name, optional_args) ==
    LET typ == Unit("QueueType", "Classic")
        args == combined_args(optional_args, typ)
    IN  QueueParams(name, Unit("QueueType", "Classic"), TRUE, FALSE, TRUE, args)

\* QueueParams::new_durable_classic_queue
new_durable_classic_queue(name, optional_args) ==
    LET typ == Unit("QueueType", "Classic")
        args == combined_args(optional_args, typ)
    IN  QueueParams(name, Unit("QueueType", "Classic"), TRUE, FALSE, FALSE, args)

\* QueueParams::new
new(name, queue_type, durable, auto_delete, optional_args) ==
    LET args == combined_args(optional_args, queue_type)
    IN  QueueParams(name, queue_type, durable, auto_delete, FALSE, args)

\* struct PolicyParams
PolicyParams(vhost, name, pattern, apply_to, priority, definition) ==
    [vhost |-> vhost, name |-> name, pattern |-> pattern, apply_to |-> apply_to,
     priority |-> priority, definition |-> definition]

\* #[derive(Serialize)] struct PolicyParams: apply_to is written as apply-to,
\* priority as the i32 it is
PolicyParams_serialize(self) ==
    JObject([k \in { "vhost", "name", "pattern", "apply-to", "priority", "definition" } |->
        IF k = "vhost" THEN JString(self.vhost)
        ELSE IF k = "name" THEN JString(self.name)
        ELSE IF k = "pattern" THEN JString(self.pattern)
        ELSE IF k = "apply-to" THEN Enum_serialize(self.apply_to)
        ELSE IF k = "priority" THEN JNumber(self.priority)
        ELSE IF self.definition.some THEN JObject(self.definition.v) ELSE JNull])

(***************************************************************************)
(* requests.rs: ExchangeParams                                             *)
(***************************************************************************)
\* struct ExchangeParams
ExchangeParams(name, exchange_type, durable, auto_delete, arguments) ==
    [name |-> name, exchange_type |-> exchange_type, durable |-> durable,
     auto_delete |-> auto_delete, arguments |-> arguments]

\* ExchangeParams::new marking the arguments the way QueueParams does
ExchangeParams_new_marked(name, exchange_type, durable, auto_delete, optional_args) ==
    ExchangeParams(name, exchange_type, durable, auto_delete,
                   Some(Map_insert(IF optional_args.some THEN optional_args.v ELSE Map_new,
                                   "x-exchange-type",
                                   JString(String_from_ExchangeType(exchange_type)))))

\* ExchangeParams::new
ExchangeParams_new(name, exchange_type, durable, auto_delete, optional_args) ==
    ExchangeParams(name, exchange_type, durable, auto_delete, optional_args)

\* ExchangeParams::durable
ExchangeParams_durable(name, exchange_type, optional_args) ==
    ExchangeParams_new(name, exchange_type, TRUE, FALSE, optional_args)

\* ExchangeParams::fanout
ExchangeParams_fanout(name, durable, auto_delete, optional_args) ==
    ExchangeParams_new(name, Unit("ExchangeType", "Fanout"), durable, auto_delete,
                       optional_args)

\* ExchangeParams::durable_fanout
ExchangeParams_durable_fanout(name, optional_args) ==
    ExchangeParams_new(name, Unit("ExchangeType", "Fanout"), TRUE, FALSE, optional_args)

\* durable_topic building a fanout exchange
ExchangeParams_durable_topic_as_fanout(name, optional_args) ==
    ExchangeParams_new(name, Unit("ExchangeType", "Fanout"), TRUE, FALSE, optional_args)

\* ExchangeParams::topic
ExchangeParams_topic(name, durable, auto_delete, optional_args) ==
    ExchangeParams_new(name, Unit("ExchangeType", "Topic"), durable, auto_delete,
                       optional_args)

\* ExchangeParams::durable_topic
ExchangeParams_durable_topic(name, optional_args) ==
    ExchangeParams_new(name, Unit("ExchangeType", "Topic"), TRUE, FALSE, optional_args)

\* ExchangeParams::direct
ExchangeParams_direct(name, durable, auto_delete, optional_args) ==
    ExchangeParams_new(name, Unit("ExchangeType", "Direct"), durable, auto_delete,
                       optional_args)

\* ExchangeParams::durable_direct
ExchangeParams_durable_direct(name, optional_args) ==
    ExchangeParams_new(name, Unit("ExchangeType", "Direct"), TRUE, FALSE, optional_args)

\* ExchangeParams::headers
ExchangeParams_headers(name, durable, auto_delete, optional_args) ==
    ExchangeParams_new(name, Unit("ExchangeType", "Headers"), durable, auto_delete,
                       optional_args)

\* ExchangeParams::durable_headers
ExchangeParams_durable_headers(name, optional_args) ==
    ExchangeParams_new(name, Unit("ExchangeType", "Headers"), TRUE, FALSE, optional_args)

(***************************************************************************)
(* responses.rs: the records that embed a closed enumeration               *)
(***************************************************************************)
\* String: the payload must be a string
String_deserialize(json) ==
    IF IsString(json) THEN Ok(json.string) ELSE Err("invalid type")

\* i16: the payload must be a number of the 16-bit signed range
i16_deserialize(json) ==
    IF IsNumber(json) /\ json.number >= -32768 /\ json.number <= 32767
    THEN Ok(json.number)
    ELSE Err("invalid value")

\* struct XArguments(pub Map<String, serde_json::Value>)
XArguments_deserialize(json) ==
    IF IsObject(json) THEN Ok(json.object) ELSE Err("invalid type")

\* struct PolicyDefinition(pub Option<Map<String, serde_json::Value>>)
PolicyDefinition_deserialize(json) ==
    IF IsNull(json) THEN Ok(None)
    ELSE IF IsObject(json) THEN Ok(Some(json.object))
    ELSE Err("invalid type")

\* a field of a derived struct Deserialize: the key must be in the payload
\* and its value must decode
Field(payload, key, Decode(_)) ==
    IF key \in DOMAIN payload THEN Decode(payload[key]) ELSE Err("missing field")

\* an Option<String> field: a missing key and null are both None
OptionString_field(payload, key) ==
    IF key \notin DOMAIN payload THEN Ok(None)
    ELSE IF IsNull(payload[key]) THEN Ok(None)
    ELSE IF IsString(payload[key]) THEN Ok(Some(payload[key].string))
    ELSE Err("invalid type")

\* #[derive(Deserialize)] struct Policy
Policy_deserialize(payload) ==
    LET name == Field(payload, "name", String_deserialize)
        vhost == Field(payload, "vhost", String_deserialize)
        pattern == Field(payload, "pattern", String_deserialize)
        apply_to == Field(payload, "apply-to", PolicyTarget_deserialize)
        priority == Field(payload, "priority", i16_deserialize)
        definition == Field(payload, "definition", PolicyDefinition_deserialize)
    IN  IF ~name.ok THEN Err("name")
        ELSE IF ~vhost.ok THEN Err("vhost")
        ELSE IF ~pattern.ok THEN Err("pattern")
        ELSE IF ~apply_to.ok THEN Err("apply-to")
        ELSE IF ~priority.ok THEN Err("priority")
        ELSE IF ~definition.ok THEN Err("definition")
        ELSE Ok([name |-> name.v, vhost |-> vhost.v, pattern |-> pattern.v,
                 apply_to |-> apply_to.v, priority |-> priority.v,
                 definition |-> definition.v])

\* #[derive(Deserialize)] struct BindingInfo
BindingInfo_deserialize(payload) ==
    LET vhost == Field(payload, "vhost", String_deserialize)
        source == Field(payload, "source", String_deserialize)
        destination == Field(payload, "destination", String_deserialize)
        destination_type ==
            Field(payload, "destination_type", BindingDestinationType_deserialize)
        routing_key == Field(payload, "routing_key", String_deserialize)
        arguments == Field(payload, "arguments", XArguments_deserialize)
        properties_key == OptionString_field(payload, "properties_key")
    IN  IF ~vhost.ok THEN Err("vhost")
        ELSE IF ~source.ok THEN Err("source")
        ELSE IF ~destination.ok THEN Err("destination")
        ELSE IF ~destination_type.ok THEN Err("destination_type")
        ELSE IF ~routing_key.ok THEN Err("routing_key")
        ELSE IF ~arguments.ok THEN Err("arguments")
        ELSE IF ~properties_key.ok THEN Err("properties_key")
        ELSE Ok([vhost |-> vhost.v, source |-> source.v,
                 destination |-> destination.v,
                 destination_type |-> destination_type.v,
                 routing_key |-> routing_key.v, arguments |-> arguments.v,
                 properties_key |-> properties_key.v])

(***************************************************************************)
(* responses.rs: decoding of server payloads.  A payload is a JSON value;  *)
(* a record is decoded field by field the way its derived Deserialize      *)
(* does, and the result is Ok of the record or Err of the key that failed. *)
(***************************************************************************)
JBool(b) == [bool |-> b]
JArray(xs) == [array |-> xs]

IsBool(json) == "bool" \in DOMAIN json
IsArray(json) == "array" \in DOMAIN json

\* a u32 keeps its 32 bits as two halves of 16 bits
u32(n) == [hi |-> n \div 65536, lo |-> n % 65536]

Digits == { "0", "1", "2", "3", "4", "5", "6", "7", "8", "9" }

DigitValue ==
    [c \in Digits |->
        CASE c = "0" -> 0 [] c = "1" -> 1 [] c = "2" -> 2 [] c = "3" -> 3
          [] c = "4" -> 4 [] c = "5" -> 5 [] c = "6" -> 6 [] c = "7" -> 7
          [] c = "8" -> 8 [] c = "9" -> 9]

\* the process identifiers servers send as strings, and strings that are not one
PidChars ==
    { <<"4", "2", "4", "2">>, <<"0">>, <<"0", "0", "7">>, <<"+", "4", "2">>,
      <<"4", "2", "9", "4", "9", "6", "7", "2", "9", "5">>,
      <<"4", "2", "9", "4", "9", "6", "7", "2", "9", "6">>,
      <<"9", "9", "9", "9", "9", "9", "9", "9", "9", "9", "9">>,
      <<>>, <<"a", "b", "c">>, <<"1", "2", "a">>, <<"-", "1">>, <<" ", "4", "2">>,
      <<"1", "2", ".", "5">>, <<"+">> }

\* the characters of a string
chars(s) == CHOOSE cs \in PidChars : Str(cs) = s

\* checked_mul(10) followed by checked_add(digit), wrapping around 2^32
RECURSIVE u32_from_digits_wrapping(_, _)
u32_from_digits_wrapping(acc, cs) ==
    IF cs = <<>> THEN Ok(acc)
    ELSE IF Head(cs) \notin Digits THEN Err("invalid digit found in string")
    ELSE LET lo10 == acc.lo * 10 + DigitValue[Head(cs)]
             hi10 == acc.hi * 10 + lo10 \div 65536
         IN  u32_from_digits_wrapping([hi |-> hi10 % 65536, lo |-> lo10 % 65536],
                                      Tail(cs))

\* the digit loop of u32::from_str: checked_mul(10) followed by
\* checked_add(digit)
RECURSIVE u32_from_digits(_, _)
u32_from_digits(acc, cs) ==
    IF cs = <<>> THEN Ok(acc)
    ELSE IF Head(cs) \notin Digits THEN Err("invalid digit found in string")
    ELSE LET lo10 == acc.lo * 10 + DigitValue[Head(cs)]
             hi10 == acc.hi * 10 + lo10 \div 65536
         IN  IF hi10 > 65535
             THEN Err("number too large to fit in target type")
             ELSE u32_from_digits([hi |-> hi10, lo |-> lo10 % 65536], Tail(cs))

\* u32::from_str
u32_from_str(cs) ==
    IF cs = <<>> THEN Err("cannot parse integer from empty string")
    ELSE IF cs = <<"+">> \/ cs = <<"-">> THEN Err("invalid digit found in string")
    ELSE IF Head(cs) = "+" THEN u32_from_digits(u32(0), Tail(cs))
    ELSE u32_from_digits(u32(0), cs)

\* the unsigned integers: the payload must be a number that is not negative
\* and fits the width
u16_deserialize(json) ==
    IF IsNumber(json) /\ json.number >= 0 /\ json.number <= 65535
    THEN Ok(json.number)
    ELSE Err("invalid value")

u32_deserialize(json) ==
    IF IsNumber(json) /\ json.number >= 0 THEN Ok(u32(json.number))
    ELSE Err("invalid value")

u64_deserialize(json) ==
    IF IsNumber(json) /\ json.number >= 0 THEN Ok(json.number)
    ELSE Err("invalid value")

f32_deserialize(json) ==
    IF IsNumber(json) THEN Ok(json.number) ELSE Err("invalid type")

bool_deserialize(json) ==
    IF IsBool(json) THEN Ok(json.bool) ELSE Err("invalid type")

\* Map<String, Value> and the structs transparent over it
Map_deserialize(json) ==
    IF IsObject(json) THEN Ok(json.object) ELSE Err("invalid type")

\* Vec<String> and the newtypes over it (TagList, NodeList)
VecString_deserialize(json) ==
    IF IsArray(json) /\ \A i \in DOMAIN json.array : IsString(json.array[i])
    THEN Ok([i \in DOMAIN json.array |-> json.array[i].string])
    ELSE Err("invalid type")

\* serde_aux deserialize_number_from_string::<u32>: a string is parsed with
\* u32::from_str, anything else has to be a u32
deserialize_number_from_string(json) ==
    IF IsString(json) THEN u32_from_str(chars(json.string))
    ELSE IF IsNumber(json) /\ json.number >= 0 THEN Ok(u32(json.number))
    ELSE Err("data did not match any variant of untagged enum StringOrInt")

\* MapVisitor::visit_map: the map is decoded as T
MapVisitor_visit_map(map) == Ok(map)

\* MapVisitor::visit_seq: the default of T, no element of the sequence is read
MapVisitor_visit_seq(default, seq) == [ret |-> Ok(default), read |-> 0]

\* deserialize_map_or_seq that takes whatever is no map for the default
deserialize_map_or_seq_lenient(default, json) ==
    IF IsObject(json) THEN MapVisitor_visit_map(json.object) ELSE Ok(default)

\* deserialize_map_or_seq::<T>, T a map: deserialize_any hands a map to
\* visit_map and a sequence to visit_seq, and fails when the visitor of a
\* sequence returns before the end of the sequence
deserialize_map_or_seq(default, json) ==
    IF IsObject(json) THEN MapVisitor_visit_map(json.object)
    ELSE IF IsArray(json)
    THEN LET visited == MapVisitor_visit_seq(default, json.array)
         IN  IF visited.read < Len(json.array)
             THEN Err("trailing characters")
             ELSE visited.ret
    ELSE Err("invalid type")

\* fn undefined
undefined == "?"

\* a field of a derived Deserialize: the key it is read from, its name, its
\* type and what the derive does with it (required, an Option, #[serde(default)],
\* #[serde(default = "undefined")] or a deserialize_with function)
FieldOf(key, field, type, rule) ==
    [key |-> key, field |-> field, type |-> type, rule |-> rule]

\* struct VirtualHostMetadata
VirtualHostMetadata_fields ==
    << FieldOf("tags", "tags", "TagList", "option"),
       FieldOf("description", "description", "String", "option"),
       FieldOf("default_queue_type", "default_queue_type", "String", "option") >>

\* struct VirtualHost
VirtualHost_fields ==
    << FieldOf("name", "name", "String", "required"),
       FieldOf("tags", "tags", "TagList", "option"),
       FieldOf("description", "description", "String", "option"),
       FieldOf("default_queue_type", "default_queue_type", "String", "option"),
       FieldOf("metadata", "metadata", "VirtualHostMetadata", "required") >>

\* QueueInfo with leader, members and online required
QueueInfo_fields_replicated_required ==
    << FieldOf("name", "name", "String", "required"),
       FieldOf("vhost", "vhost", "String", "required"),
       FieldOf("type", "queue_type", "String", "required"),
       FieldOf("durable", "durable", "bool", "required"),
       FieldOf("auto_delete", "auto_delete", "bool", "required"),
       FieldOf("exclusive", "exclusive", "bool", "required"),
       FieldOf("arguments", "arguments", "XArguments", "required"),
       FieldOf("node", "node", "String", "default_undefined"),
       FieldOf("state", "state", "String", "default"),
       FieldOf("leader", "leader", "String", "required"),
       FieldOf("members", "members", "NodeList", "required"),
       FieldOf("online", "online", "NodeList", "required"),
       FieldOf("memory", "memory", "u64", "default"),
       FieldOf("consumers", "consumer_count", "u16", "default"),
       FieldOf("consumer_utilisation", "consumer_utilisation", "f32", "default"),
       FieldOf("exclusive_consumer_tag", "exclusive_consumer_tag", "String", "option"),
       FieldOf("policy", "policy", "String", "option"),
       FieldOf("message_bytes", "message_bytes", "u64", "default"),
       FieldOf("message_bytes_persistent", "message_bytes_persistent", "u64", "default"),
       FieldOf("message_bytes_ram", "message_bytes_ram", "u64", "default"),
       FieldOf("message_bytes_ready", "message_bytes_ready", "u64", "default"),
       FieldOf("message_bytes_unacknowledged", "message_bytes_unacknowledged", "u64", "default"),
       FieldOf("messages", "message_count", "u64", "default"),
       FieldOf("messages_persistent", "on_disk_message_count", "u64", "default"),
       FieldOf("messages_ram", "in_memory_message_count", "u64", "default"),
       FieldOf("messages_unacknowledged", "unacknowledged_message_count", "u64", "default") >>

\* struct QueueInfo
QueueInfo_fields ==
    << FieldOf("name", "name", "String", "required"),
       FieldOf("vhost", "vhost", "String", "required"),
       FieldOf("type", "queue_type", "String", "required"),
       FieldOf("durable", "durable", "bool", "required"),
       FieldOf("auto_delete", "auto_delete", "bool", "required"),
       FieldOf("exclusive", "exclusive", "bool", "required"),
       FieldOf("arguments", "arguments", "XArguments", "required"),
       FieldOf("node", "node", "String", "default_undefined"),
       FieldOf("state", "state", "String", "default"),
       FieldOf("leader", "leader", "String", "option"),
       FieldOf("members", "members", "NodeList", "option"),
       FieldOf("online", "online", "NodeList", "option"),
       FieldOf("memory", "memory", "u64", "default"),
       FieldOf("consumers", "consumer_count", "u16", "default"),
       FieldOf("consumer_utilisation", "consumer_utilisation", "f32", "default"),
       FieldOf("exclusive_consumer_tag", "exclusive_consumer_tag", "String", "option"),
       FieldOf("policy", "policy", "String", "option"),
       FieldOf("message_bytes", "message_bytes", "u64", "default"),
       FieldOf("message_bytes_persistent", "message_bytes_persistent", "u64", "default"),
       FieldOf("message_bytes_ram", "message_bytes_ram", "u64", "default"),
       FieldOf("message_bytes_ready", "message_bytes_ready", "u64", "default"),
       FieldOf("message_bytes_unacknowledged", "message_bytes_unacknowledged", "u64", "default"),
       FieldOf("messages", "message_count", "u64", "default"),
       FieldOf("messages_persistent", "on_disk_message_count", "u64", "default"),
       FieldOf("messages_ram", "in_memory_message_count", "u64", "default"),
       FieldOf("messages_unacknowledged", "unacknowledged_message_count", "u64", "default") >>

\* struct ClusterNode
ClusterNode_fields ==
    << FieldOf("name", "name", "String", "required"),
       FieldOf("uptime", "uptime", "u32", "required"),
       FieldOf("run_queue", "run_queue", "u32", "required"),
       FieldOf("processors", "processors", "u32", "required"),
       FieldOf("os_pid", "os_pid", "u32", "number_from_string"),
       FieldOf("fd_total", "fd_total", "u32", "required"),
       FieldOf("proc_total", "total_erlang_processes", "u32", "required"),
       FieldOf("mem_limit", "memory_high_watermark", "u64", "required"),
       FieldOf("mem_alarm", "has_memory_alarm_in_effect", "bool", "required"),
       FieldOf("disk_free_limit", "free_disk_space_low_watermark", "u64", "required"),
       FieldOf("disk_free_alarm", "has_free_disk_space_alarm_in_effect", "bool", "required"),
       FieldOf("rates_mode", "rates_mode", "String", "required") >>

\* struct RuntimeParameter
RuntimeParameter_fields ==
    << FieldOf("name", "name", "String", "required"),
       FieldOf("vhost", "vhost", "String", "required"),
       FieldOf("component", "component", "String", "required"),
       FieldOf("value", "value", "RuntimeParameterValue", "map_or_seq") >>

\* struct ClusterAlarmCheckDetails
ClusterAlarmCheckDetails_fields ==
    << FieldOf("reason", "reason", "String", "required"),
       FieldOf("alarms", "alarms", "Vec<ResourceAlarm>", "required") >>

\* struct ResourceAlarm
ResourceAlarm_fields ==
    << FieldOf("node", "node", "String", "required"),
       FieldOf("resource", "resource", "String", "required") >>

\* struct QuorumCriticalityCheckDetails
QuorumCriticalityCheckDetails_fields ==
    << FieldOf("reason", "reason", "String", "required"),
       FieldOf("queues", "queues", "Vec<QuorumEndangeredQueue>", "required") >>

\* struct QuorumEndangeredQueue
QuorumEndangeredQueue_fields ==
    << FieldOf("name", "name", "String", "required"),
       FieldOf("virtual_host", "vhost", "String", "required"),
       FieldOf("type", "queue_type", "String", "required") >>

\* struct GetMessage
GetMessage_fields ==
    << FieldOf("payload_bytes", "payload_bytes", "u32", "required"),
       FieldOf("redelivered", "redelivered", "bool", "required"),
       FieldOf("exchange", "exchange", "String", "required"),
       FieldOf("routing_key", "routing_key", "String", "required"),
       FieldOf("message_count", "message_count", "u32", "required"),
       FieldOf("properties", "properties", "MessageProperties", "map_or_seq"),
       FieldOf("payload", "payload", "String", "required"),
       FieldOf("payload_encoding", "payload_encoding", "String", "required") >>

\* struct ChurnRates
ChurnRates_fields ==
    << FieldOf("connection_created", "connection_created", "u32", "required"),
       FieldOf("connection_closed", "connection_closed", "u32", "required"),
       FieldOf("queue_declared", "queue_declared", "u32", "required"),
       FieldOf("queue_created", "queue_created", "u32", "required"),
       FieldOf("queue_deleted", "queue_deleted", "u32", "required"),
       FieldOf("channel_created", "channel_created", "u32", "required"),
       FieldOf("channel_closed", "channel_closed", "u32", "required") >>

\* Overview with cluster_tags and node_tags required
Overview_fields_tags_required ==
    << FieldOf("cluster_name", "cluster_name", "String", "required"),
       FieldOf("node", "node", "String", "required"),
       FieldOf("erlang_full_version", "erlang_full_version", "String", "required"),
       FieldOf("erlang_version", "erlang_version", "String", "required"),
       FieldOf("rabbitmq_version", "rabbitmq_version", "String", "required"),
       FieldOf("product_name", "product_name", "String", "required"),
       FieldOf("product_version", "product_version", "String", "required"),
       FieldOf("cluster_tags", "cluster_tags", "TagMap", "required"),
       FieldOf("node_tags", "node_tags", "TagMap", "required"),
       FieldOf("statistics_db_event_queue", "statistics_db_event_queue", "u64", "required"),
       FieldOf("churn_rates", "churn_rates", "ChurnRates", "required") >>

\* struct Overview
Overview_fields ==
    << FieldOf("cluster_name", "cluster_name", "String", "required"),
       FieldOf("node", "node", "String", "required"),
       FieldOf("erlang_full_version", "erlang_full_version", "String", "required"),
       FieldOf("erlang_version", "erlang_version", "String", "required"),
       FieldOf("rabbitmq_version", "rabbitmq_version", "String", "required"),
       FieldOf("product_name", "product_name", "String", "required"),
       FieldOf("product_version", "product_version", "String", "required"),
       FieldOf("cluster_tags", "cluster_tags", "TagMap", "option"),
       FieldOf("node_tags", "node_tags", "TagMap", "option"),
       FieldOf("statistics_db_event_queue", "statistics_db_event_queue", "u64", "required"),
       FieldOf("churn_rates", "churn_rates", "ChurnRates", "required") >>

\* struct ObjectTotals
ObjectTotals_fields ==
    << FieldOf("connections", "connections", "u64", "required"),
       FieldOf("channels", "channels", "u64", "required"),
       FieldOf("queues", "queues", "u64", "required"),
       FieldOf("exchanges", "exchanges", "u64", "required") >>

\* struct User
User_fields ==
    << FieldOf("name", "name", "String", "required"),
       FieldOf("tags", "tags", "TagList", "required"),
       FieldOf("password_hash", "password_hash", "String", "required") >>

\* struct Permissions
Permissions_fields ==
    << FieldOf("user", "user", "String", "required"),
       FieldOf("vhost", "vhost", "String", "required"),
       FieldOf("configure", "configure", "String", "required"),
       FieldOf("read", "read", "String", "required"),
       FieldOf("write", "write", "String", "required") >>

\* struct QueueDefinition
QueueDefinition_fields ==
    << FieldOf("name", "name", "String", "required"),
       FieldOf("vhost", "vhost", "String", "required"),
       FieldOf("durable", "durable", "bool", "required"),
       FieldOf("auto_delete", "auto_delete", "bool", "required"),
       FieldOf("arguments", "arguments", "XArguments", "required") >>

\* struct ExchangeInfo
ExchangeInfo_fields ==
    << FieldOf("name", "name", "String", "required"),
       FieldOf("vhost", "vhost", "String", "required"),
       FieldOf("type", "exchange_type", "String", "required"),
       FieldOf("durable", "durable", "bool", "required"),
       FieldOf("auto_delete", "auto_delete", "bool", "required"),
       FieldOf("arguments", "arguments", "XArguments", "required") >>

\* struct BindingInfo
BindingInfo_fields ==
    << FieldOf("vhost", "vhost", "String", "required"),
       FieldOf("source", "source", "String", "required"),
       FieldOf("destination", "destination", "String", "required"),
       FieldOf("destination_type", "destination_type", "BindingDestinationType", "required"),
       FieldOf("routing_key", "routing_key", "String", "required"),
       FieldOf("arguments", "arguments", "XArguments", "required"),
       FieldOf("properties_key", "properties_key", "String", "option") >>

\* struct Policy
Policy_fields ==
    << FieldOf("name", "name", "String", "required"),
       FieldOf("vhost", "vhost", "String", "required"),
       FieldOf("pattern", "pattern", "String", "required"),
       FieldOf("apply-to", "apply_to", "PolicyTarget", "required"),
       FieldOf("priority", "priority", "i16", "required"),
       FieldOf("definition", "definition", "PolicyDefinition", "required") >>

\* struct DefinitionSet
DefinitionSet_fields ==
    << FieldOf("rabbitmq_version", "server_version", "String", "required"),
       FieldOf("users", "users", "Vec<User>", "required"),
       FieldOf("vhosts", "virtual_hosts", "Vec<VirtualHost>", "required"),
       FieldOf("permissions", "permissions", "Vec<Permissions>", "required"),
       FieldOf("parameters", "parameters", "Vec<RuntimeParameter>", "required"),
       FieldOf("policies", "policies", "Vec<Policy>", "required"),
       FieldOf("queues", "queues", "Vec<QueueDefinition>", "required"),
       FieldOf("exchanges", "exchanges", "Vec<ExchangeDefinition>", "required"),
       FieldOf("bindings", "bindings", "Vec<BindingInfo>", "required") >>

\* the records with a derived Deserialize
StructFields ==
    [type \in { "VirtualHostMetadata",
                 "VirtualHost",
                 "QueueInfo",
                 "ClusterNode",
                 "RuntimeParameter",
                 "ClusterAlarmCheckDetails",
                 "ResourceAlarm",
                 "QuorumCriticalityCheckDetails",
                 "QuorumEndangeredQueue",
                 "GetMessage",
                 "ChurnRates",
                 "Overview", "ObjectTotals",
                 "User", "Permissions", "QueueDefinition", "ExchangeInfo",
                 "BindingInfo", "Policy", "DefinitionSet" } |->
        IF type = "VirtualHostMetadata" THEN VirtualHostMetadata_fields
        ELSE IF type = "VirtualHost" THEN VirtualHost_fields
        ELSE IF type = "QueueInfo" THEN QueueInfo_fields
        ELSE IF type = "ClusterNode" THEN ClusterNode_fields
        ELSE IF type = "RuntimeParameter" THEN RuntimeParameter_fields
        ELSE IF type = "ClusterAlarmCheckDetails" THEN ClusterAlarmCheckDetails_fields
        ELSE IF type = "ResourceAlarm" THEN ResourceAlarm_fields
        ELSE IF type = "QuorumCriticalityCheckDetails" THEN QuorumCriticalityCheckDetails_fields
        ELSE IF type = "QuorumEndangeredQueue" THEN QuorumEndangeredQueue_fields
        ELSE IF type = "GetMessage" THEN GetMessage_fields
        ELSE IF type = "ChurnRates" THEN ChurnRates_fields
        ELSE IF type = "Overview" THEN Overview_fields
        ELSE IF type = "ObjectTotals" THEN ObjectTotals_fields
        ELSE IF type = "User" THEN User_fields
        ELSE IF type = "Permissions" THEN Permissions_fields
        ELSE IF type = "QueueDefinition" THEN QueueDefinition_fields
        ELSE IF type = "ExchangeInfo" THEN ExchangeInfo_fields
        ELSE IF type = "BindingInfo" THEN BindingInfo_fields
        ELSE IF type = "Policy" THEN Policy_fields
        ELSE DefinitionSet_fields]

StringTypes == { "String" }
MapTypes == { "XArguments", "TagMap", "MessageProperties", "RuntimeParameterValue" }
VecStringTypes == { "TagList", "NodeList" }
\* the element type of each Vec of records (ExchangeDefinition is ExchangeInfo)
ElementType ==
    ("Vec<ResourceAlarm>" :> "ResourceAlarm") @@
    ("Vec<QuorumEndangeredQueue>" :> "QuorumEndangeredQueue") @@
    ("Vec<User>" :> "User") @@ ("Vec<VirtualHost>" :> "VirtualHost") @@
    ("Vec<Permissions>" :> "Permissions") @@
    ("Vec<RuntimeParameter>" :> "RuntimeParameter") @@ ("Vec<Policy>" :> "Policy") @@
    ("Vec<QueueDefinition>" :> "QueueDefinition") @@
    ("Vec<ExchangeDefinition>" :> "ExchangeInfo") @@
    ("Vec<BindingInfo>" :> "BindingInfo")
VecStructTypes == DOMAIN ElementType

\* Default::default of the types of the #[serde(default)] fields
DefaultOfType(type) == IF type = "String" THEN "" ELSE 0

RECURSIVE Deserialize(_, _)

\* one field of a record, read from the object obj
Field_deserialize(f, obj) ==
    IF f.rule = "option"
    THEN IF f.key \notin DOMAIN obj THEN Ok(None)
         ELSE IF IsNull(obj[f.key]) THEN Ok(None)
         ELSE LET inner == Deserialize(f.type, obj[f.key])
              IN  IF inner.ok THEN Ok(Some(inner.v)) ELSE inner
    ELSE IF f.key \notin DOMAIN obj
    THEN IF f.rule = "default" THEN Ok(DefaultOfType(f.type))
         ELSE IF f.rule = "default_undefined" THEN Ok(undefined)
         ELSE Err("missing field")
    ELSE IF f.rule = "map_or_seq" THEN deserialize_map_or_seq(Map_new, obj[f.key])
    ELSE IF f.rule = "number_from_string" THEN deserialize_number_from_string(obj[f.key])
    ELSE Deserialize(f.type, obj[f.key])

\* #[derive(Deserialize)] of a struct: every field must decode; keys of the
\* payload that are no field are skipped
Struct_deserialize(type, json) ==
    IF ~IsObject(json) THEN Err("invalid type")
    ELSE LET fields == StructFields[type]
             decoded == [i \in DOMAIN fields |-> Field_deserialize(fields[i], json.object)]
             failed == { i \in DOMAIN fields : ~decoded[i].ok }
             first == CHOOSE i \in failed : \A j \in failed : i <= j
             index(name) == CHOOSE i \in DOMAIN fields : fields[i].field = name
         IN  IF failed # {} THEN Err(fields[first].key)
             ELSE Ok([name \in { fields[i].field : i \in DOMAIN fields } |->
                        decoded[index(name)].v])

\* Vec<T>, T a struct: the payload must be a sequence of records of T
VecStruct_deserialize(type, json) ==
    IF ~IsArray(json) THEN Err("invalid type")
    ELSE LET decoded == [i \in DOMAIN json.array |->
                            Deserialize(ElementType[type], json.array[i])]
         IN  IF \E i \in DOMAIN decoded : ~decoded[i].ok
             THEN Err("invalid element")
             ELSE Ok([i \in DOMAIN decoded |-> decoded[i].v])

\* Deserialize::deserialize of each type
Deserialize(type, json) ==
    IF type \in StringTypes THEN String_deserialize(json)
    ELSE IF type = "bool" THEN bool_deserialize(json)
    ELSE IF type = "u16" THEN u16_deserialize(json)
    ELSE IF type = "u32" THEN u32_deserialize(json)
    ELSE IF type = "u64" THEN u64_deserialize(json)
    ELSE IF type = "f32" THEN f32_deserialize(json)
    ELSE IF type \in MapTypes THEN Map_deserialize(json)
    ELSE IF type \in VecStringTypes THEN VecString_deserialize(json)
    ELSE IF type \in VecStructTypes THEN VecStruct_deserialize(type, json)
    ELSE IF type = "Policy"
    THEN IF IsObject(json) THEN Policy_deserialize(json.object) ELSE Err("invalid type")
    ELSE IF type = "BindingInfo"
    THEN IF IsObject(json) THEN BindingInfo_deserialize(json.object)
         ELSE Err("invalid type")
    ELSE Struct_deserialize(type, json)

RECURSIVE Serialize(_, _)

\* #[derive(Serialize)] of a struct: every field under its own name (the
\* renames of these structs are for deserialize only), None as null
Struct_serialize(type, self) ==
    LET fields == StructFields[type]
        index(name) == CHOOSE i \in DOMAIN fields : fields[i].field = name
        value(f) == IF f.rule = "option"
                    THEN IF self[f.field].some THEN Serialize(f.type, self[f.field].v)
                         ELSE JNull
                    ELSE Serialize(f.type, self[f.field])
    IN  JObject([name \in { fields[i].field : i \in DOMAIN fields } |->
                   value(fields[index(name)])])

\* Serialize::serialize of each type
Serialize(type, self) ==
    IF type \in StringTypes THEN JString(self)
    ELSE IF type = "bool" THEN JBool(self)
    ELSE IF type \in { "i16", "u16", "u64", "f32" } THEN JNumber(self)
    ELSE IF type \in MapTypes THEN JObject(self)
    ELSE IF type \in VecStringTypes THEN JArray([i \in DOMAIN self |-> JString(self[i])])
    ELSE IF type \in VecStructTypes
    THEN JArray([i \in DOMAIN self |-> Serialize(ElementType[type], self[i])])
    ELSE IF type = "PolicyDefinition"
    THEN IF self.some THEN JObject(self.v) ELSE JNull
    ELSE IF type \in SerdeEnums THEN Enum_serialize(self)
    ELSE Struct_serialize(type, self)

\* #[derive(Deserialize)] enum HealthCheckFailureDetails: an enum of newtype
\* variants with no serde attribute is read from an object of one entry, the
\* name of the variant and under it the payload of the variant
HealthCheckFailureDetails_deserialize(json) ==
    IF ~IsObject(json) THEN Err("invalid type")
    ELSE IF Cardinality(DOMAIN json.object) # 1 THEN Err("expected one variant")
    ELSE LET variant == CHOOSE k \in DOMAIN json.object : TRUE
             details ==
                 IF variant = "AlarmCheck"
                 THEN Deserialize("ClusterAlarmCheckDetails", json.object[variant])
                 ELSE Deserialize("QuorumCriticalityCheckDetails", json.object[variant])
         IN  IF variant \notin { "AlarmCheck", "NodeIsQuorumCritical" }
             THEN Err("unknown variant")
             ELSE IF ~details.ok THEN details
             ELSE Ok([variant |-> variant, details |-> details.v])

(***************************************************************************)
(* The values callers pass in.                                             *)
(***************************************************************************)
SupportedProtocolValues == SupportedProtocolKnown \cup { Other(s) : s \in InputStrings }
ExchangeTypeValues == ExchangeTypeKnown \cup { Plugin(s) : s \in InputStrings }

QueueNames == { "q1", "rust.tests.cq.69373293479827" }

\* the values a caller may put under x-queue-type itself
MarkerInputs ==
    { JString("classic"), JString("quorum"), JString("stream"), JString("x-custom"),
      JNumber(1) }

\* the caller argument maps: any of x-max-length, x-max-length-bytes and
\* x-queue-type, or no map at all
ArgumentMaps ==
    { Map_append(Map_append(a, b), c) :
        a \in { Map_new, [k \in {"x-max-length"} |-> JNumber(10000)] },
        b \in { Map_new, [k \in {"x-max-length-bytes"} |-> JNumber(10000000)] },
        c \in { Map_new } \cup { [k \in {"x-queue-type"} |-> m] : m \in MarkerInputs } }

XArgumentsInputs == { None } \cup { Some(m) : m \in ArgumentMaps }

\* the exchanges a caller declares
ExchangeNames == { "x1", "rust.tests.x.fanout" }
ExchangeTypeInputs == ExchangeTypeKnown \cup { Plugin("x-custom") }

\* a policy record as the server sends it, apply-to left out
PolicyBase ==
    [k \in {"name", "vhost", "pattern", "priority", "definition"} |->
        IF k = "name" THEN JString("p1")
        ELSE IF k = "vhost" THEN JString("/")
        ELSE IF k = "pattern" THEN JString("^q")
        ELSE IF k = "priority" THEN JNumber(10)
        ELSE JObject([d \in {"max-length"} |-> JNumber(10000)])]

\* a binding record as the server sends it, destination_type left out
BindingBase ==
    [k \in {"vhost", "source", "destination", "routing_key", "arguments"} |->
        IF k = "vhost" THEN JString("/")
        ELSE IF k = "source" THEN JString("amq.direct")
        ELSE IF k = "destination" THEN JString("q1")
        ELSE IF k = "routing_key" THEN JString("rk")
        ELSE JObject(Map_new)]

EnumFieldInputs == { JString(s) : s \in InputStrings } \cup { JNumber(1) }

PolicyPayloads ==
    { PolicyBase } \cup { Map_insert(PolicyBase, "apply-to", j) : j \in EnumFieldInputs }

BindingPayloads ==
    { BindingBase }
        \cup { Map_insert(BindingBase, "destination_type", j) : j \in EnumFieldInputs }
        \cup { Map_insert(Map_insert(BindingBase, "destination_type", j),
                          "properties_key", JString("rk")) : j \in EnumFieldInputs }

\* one entry of a payload, or none when the server leaves the key out
Entry(key, json) == [k \in {key} |-> json]
Absent == Map_new

\* a queue record of GET /api/queues without type, leader, members and online
QueueInfoBase ==
    [k \in { "name", "vhost", "durable", "auto_delete", "exclusive", "arguments" } |->
        IF k = "name" THEN JString("q1")
        ELSE IF k = "vhost" THEN JString("/")
        ELSE IF k = "durable" THEN JBool(TRUE)
        ELSE IF k = "auto_delete" THEN JBool(FALSE)
        ELSE IF k = "exclusive" THEN JBool(FALSE)
        ELSE JObject(Map_new)]

\* the gauges a server adds once the queue has statistics
QueueInfoGauges ==
    [k \in { "node", "state", "messages", "consumers" } |->
        IF k = "node" THEN JString("rabbit@n1")
        ELSE IF k = "state" THEN JString("running")
        ELSE IF k = "messages" THEN JNumber(3)
        ELSE JNumber(1)]

QueueInfoPayloads ==
    { Map_append(Map_append(Map_append(Map_append(Map_append(QueueInfoBase, t), g), l), m), o) :
        t \in { Entry("type", JString(s)) : s \in { "classic", "quorum", "stream" } },
        g \in { Absent, QueueInfoGauges },
        l \in { Absent, Entry("leader", JNull), Entry("leader", JString("rabbit@n1")),
                Entry("leader", JNumber(1)) },
        m \in { Absent, Entry("members", JArray(<<>>)),
                Entry("members", JArray(<<JString("rabbit@n1"), JString("rabbit@n2")>>)),
                Entry("members", JString("rabbit@n1")) },
        o \in { Absent, Entry("online", JNull),
                Entry("online", JArray(<<JString("rabbit@n1")>>)) } }

\* a node record of GET /api/nodes without os_pid
ClusterNodeBase ==
    [k \in { "name", "uptime", "run_queue", "processors", "fd_total", "proc_total", "mem_limit", "mem_alarm", "disk_free_limit", "disk_free_alarm", "rates_mode" } |->
        IF k = "name" THEN JString("rabbit@n1")
        ELSE IF k = "uptime" THEN JNumber(1000)
        ELSE IF k = "run_queue" THEN JNumber(1)
        ELSE IF k = "processors" THEN JNumber(8)
        ELSE IF k = "fd_total" THEN JNumber(1024)
        ELSE IF k = "proc_total" THEN JNumber(500)
        ELSE IF k = "mem_limit" THEN JNumber(1000000)
        ELSE IF k = "mem_alarm" THEN JBool(FALSE)
        ELSE IF k = "disk_free_limit" THEN JNumber(50000000)
        ELSE IF k = "disk_free_alarm" THEN JBool(FALSE)
        ELSE JString("basic")]

OsPidInputs ==
    { JString(Str(cs)) : cs \in PidChars }
        \cup { JNumber(4242), JNumber(0), JNumber(-1), JNull, JBool(TRUE) }

ClusterNodePayloads ==
    { ClusterNodeBase } \cup { Map_insert(ClusterNodeBase, "os_pid", j) : j \in OsPidInputs }

\* the payloads of a field that is a map, legacy and malformed ones included
MapOrSeqInputs ==
    { JObject(Map_new), JObject(Entry("delivery_mode", JNumber(2))),
      JObject(Map_insert(Entry("max-connections", JNumber(10)), "max-queues", JNumber(5))),
      JArray(<<>>), JArray(<<JNumber(1)>>),
      JArray(<<JString("delivery_mode"), JNumber(2)>>),
      JString("x"), JNumber(1), JNull, JBool(TRUE) }

\* a delivered message without properties
GetMessageBase ==
    [k \in { "payload_bytes", "redelivered", "exchange", "routing_key", "message_count", "payload", "payload_encoding" } |->
        IF k = "payload_bytes" THEN JNumber(5)
        ELSE IF k = "redelivered" THEN JBool(FALSE)
        ELSE IF k = "exchange" THEN JString("")
        ELSE IF k = "routing_key" THEN JString("q1")
        ELSE IF k = "message_count" THEN JNumber(0)
        ELSE IF k = "payload" THEN JString("hello")
        ELSE JString("string")]

GetMessagePayloads ==
    { GetMessageBase }
        \cup { Map_insert(GetMessageBase, "properties", j) : j \in MapOrSeqInputs }

\* a runtime parameter without value
RuntimeParameterBase ==
    [k \in { "name", "vhost", "component" } |->
        IF k = "name" THEN JString("limits")
        ELSE IF k = "vhost" THEN JString("/")
        ELSE JString("vhost-limits")]

RuntimeParameterPayloads ==
    { RuntimeParameterBase }
        \cup { Map_insert(RuntimeParameterBase, "value", j) : j \in MapOrSeqInputs }

ChurnRatesPayload ==
    JObject([k \in { "connection_created", "connection_closed", "queue_declared",
                     "queue_created", "queue_deleted", "channel_created",
                     "channel_closed" } |-> JNumber(0)])

\* GET /api/overview without cluster_tags, node_tags and churn_rates
OverviewBase ==
    [k \in { "cluster_name", "node", "erlang_full_version", "erlang_version", "rabbitmq_version", "product_name", "product_version", "statistics_db_event_queue" } |->
        IF k = "cluster_name" THEN JString("rabbit@n1")
        ELSE IF k = "node" THEN JString("rabbit@n1")
        ELSE IF k = "erlang_full_version" THEN JString("Erlang/OTP 26")
        ELSE IF k = "erlang_version" THEN JString("26.2")
        ELSE IF k = "rabbitmq_version" THEN JString("3.13.7")
        ELSE IF k = "product_name" THEN JString("RabbitMQ")
        ELSE IF k = "product_version" THEN JString("3.13.7")
        ELSE JNumber(0)]

TagMapPayload == JObject(Entry("environment", JString("production")))

ObjectTotalsPayload ==
    JObject([k \in { "connections", "channels", "queues", "exchanges" } |->
        IF k = "exchanges" THEN JNumber(7) ELSE JNumber(0)])

OverviewPayloads ==
    { Map_append(Map_append(Map_append(Map_append(OverviewBase, c), n), r), t) :
        c \in { Absent, Entry("cluster_tags", JNull), Entry("cluster_tags", TagMapPayload),
                Entry("cluster_tags", JArray(<<>>)) },
        n \in { Absent, Entry("node_tags", TagMapPayload),
                Entry("node_tags", JString("production")) },
        r \in { Absent, Entry("churn_rates", ChurnRatesPayload) },
        t \in { Absent, Entry("object_totals", ObjectTotalsPayload) } }

DefaultQueueTypeInputs ==
    { Absent, Entry("default_queue_type", JNull),
      Entry("default_queue_type", JString("quorum")),
      Entry("default_queue_type", JNumber(1)) }

TagsInputs == { Absent, Entry("tags", JArray(<<JString("production")>>)) }

\* GET /api/vhosts: name, tags, default_queue_type and the metadata that
\* repeats them
VirtualHostPayloads ==
    { Map_append(Map_append(Map_append(Entry("name", JString("/")), t), q), m) :
        t \in TagsInputs,
        q \in DefaultQueueTypeInputs,
        m \in { Absent }
                \cup { Entry("metadata", JObject(Map_append(mt, mq))) :
                         mt \in TagsInputs, mq \in DefaultQueueTypeInputs } }

\* the members of an export of definitions (GET /api/definitions)
UserPayload ==
    JObject([k \in { "name", "password_hash", "hashing_algorithm", "tags" } |->
        IF k = "name" THEN JString("guest")
        ELSE IF k = "password_hash" THEN JString("hash")
        ELSE IF k = "hashing_algorithm" THEN JString("rabbit_password_hashing_sha256")
        ELSE JArray(<<JString("administrator")>>)])

VirtualHostDefinitionPayload ==
    JObject(Map_insert(Entry("name", JString("/")), "metadata",
                       JObject(Entry("tags", JArray(<<>>)))))

PermissionsPayload ==
    JObject([k \in { "user", "vhost", "configure", "read", "write" } |->
        IF k = "user" THEN JString("guest")
        ELSE IF k = "vhost" THEN JString("/")
        ELSE JString(".*")])

QueueDefinitionPayload ==
    JObject([k \in { "name", "vhost", "durable", "auto_delete", "arguments" } |->
        IF k = "name" THEN JString("q1")
        ELSE IF k = "vhost" THEN JString("/")
        ELSE IF k = "durable" THEN JBool(TRUE)
        ELSE IF k = "auto_delete" THEN JBool(FALSE)
        ELSE JObject(Entry("x-queue-type", JString("classic")))])

ExchangeDefinitionPayload ==
    JObject([k \in { "name", "vhost", "type", "durable", "auto_delete", "arguments" } |->
        IF k = "name" THEN JString("x1")
        ELSE IF k = "vhost" THEN JString("/")
        ELSE IF k = "type" THEN JString("fanout")
        ELSE IF k = "durable" THEN JBool(TRUE)
        ELSE IF k = "auto_delete" THEN JBool(FALSE)
        ELSE JObject(Map_new)])

PolicyDefinitionPayload == JObject(Map_insert(PolicyBase, "apply-to", JString("queues")))

BindingDefinitionPayload ==
    JObject(Map_insert(BindingBase, "destination_type", JString("queue")))

RuntimeParameterDefinitionPayload ==
    JObject(Map_insert(RuntimeParameterBase, "value",
                       JObject(Entry("max-connections", JNumber(10)))))

\* none or one
Few(json) == { JArray(<<>>), JArray(<<json>>) }

\* exports of definitions: the server's version, a user, a virtual host, the
\* user's permissions and a queue, with or without a parameter, a policy, an
\* exchange and a binding
DefinitionSetPayloads ==
    { [k \in { "rabbitmq_version", "users", "vhosts", "permissions", "parameters",
               "policies", "queues", "exchanges", "bindings" } |->
        IF k = "rabbitmq_version" THEN JString("3.13.7")
        ELSE IF k = "users" THEN JArray(<<UserPayload>>)
        ELSE IF k = "vhosts" THEN JArray(<<VirtualHostDefinitionPayload>>)
        ELSE IF k = "permissions" THEN JArray(<<PermissionsPayload>>)
        ELSE IF k = "parameters" THEN parameters
        ELSE IF k = "policies" THEN policies
        ELSE IF k = "queues" THEN JArray(<<QueueDefinitionPayload>>)
        ELSE IF k = "exchanges" THEN exchanges
        ELSE bindings] :
        parameters \in Few(RuntimeParameterDefinitionPayload),
        policies \in Few(PolicyDefinitionPayload),
        exchanges \in Few(ExchangeDefinitionPayload),
        bindings \in Few(BindingDefinitionPayload) }

ResourceAlarmPayload ==
    JObject(Map_insert(Entry("node", JString("rabbit@n1")), "resource", JString("disk")))

QuorumEndangeredQueuePayload ==
    JObject(Map_insert(Map_insert(Entry("name", JString("q1")), "virtual_host",
                                  JString("/")),
                       "type", JString("quorum")))

\* the bodies of a failed health check: status, reason and the evidence
AlarmCheckPayloads ==
    { Map_append(Map_insert(s, "reason", JString("resource alarm(s) in effect")),
                 Entry("alarms", JArray(a))) :
        s \in { Absent, Entry("status", JString("failed")) },
        a \in { <<>>, <<ResourceAlarmPayload>> } }

NodeIsQuorumCriticalPayloads ==
    { Map_append(Map_insert(s, "reason", JString("quorum would be lost")),
                 Entry("queues", JArray(a))) :
        s \in { Absent, Entry("status", JString("failed")) },
        a \in { <<>>, <<QuorumEndangeredQueuePayload>> } }

HealthCheckFailurePayloads ==
    AlarmCheckPayloads \cup NodeIsQuorumCriticalPayloads
        \cup { Entry("AlarmCheck", JObject(p)) : p \in AlarmCheckPayloads }
        \cup { Entry("NodeIsQuorumCritical", JObject(p)) :
                 p \in NodeIsQuorumCriticalPayloads }
        \cup { Map_new, Entry("reason", JString("unknown")) }

(***************************************************************************)
(* The state: the chain of calls a caller has made on one value.  ops is   *)
(* the sequence of operations called, vals[1] the argument of the first    *)
(* and vals[i + 1] the value ops[i] returned, each held in a field named   *)
(* after its type.  The first call is made on a fresh argument, a later    *)
(* one on the value returned last.                                         *)
(***************************************************************************)
Typed(type, x) == [k \in {type} |-> x]

Untyped(tv) == tv[CHOOSE k \in DOMAIN tv : TRUE]

\* the i-th value of the chain
val(i) == Untyped(vals[i])

Op(e, fn) == [enum |-> e, fn |-> fn]

\* the conversions from a string and the conversions to a string
DecoderFns == { "from_str", "from_String" }
EncoderFns == { "into_String", "ref_into_String", "fmt", "as_ref" }

Last(s) == s[Len(s)]

LastIsString(e) == ops # <<>> /\ Last(ops).enum = e /\ Last(ops).fn \in EncoderFns
LastIsEnum(e) == ops # <<>> /\ Last(ops).enum = e /\ Last(ops).fn \in DecoderFns

Call(op, arg, ret) ==
    /\ ops = <<>>
    /\ ops' = <<op>>
    /\ vals' = <<arg, ret>>
    /\ UNCHANGED callers

Chain(op, ret) ==
    /\ Len(ops) < MaxChain
    /\ ops' = Append(ops, op)
    /\ vals' = Append(vals, ret)
    /\ UNCHANGED callers

Callers == 1..NumCallers

\* what a caller holds during a call: where the call is (pc), the operation
\* and its input, the caller's own argument map (own), the clone it handed
\* to the constructor (passed), the map under construction (result) and
\* the value returned (ret)
Frame(pc, op, input, own, passed, result, ret) ==
    [pc |-> pc, op |-> op, input |-> input, own |-> own, passed |-> passed,
     result |-> result, ret |-> ret]

Nothing == Typed("Nothing", "")

NotCalled == Frame("idle", "none", Nothing, None, None, Map_new, Nothing)

LastVal == Untyped(Last(vals))

\* a conversion from a string: of a fresh string, or of the string the last
\* conversion of the same enumeration returned
Decode(e, fn, F(_)) ==
    \/ \E cs \in InputChars :
          Call(Op(e, fn), Typed("String", Str(cs)), Typed(e, F(Str(cs))))
    \/ LastIsString(e) /\ Chain(Op(e, fn), Typed(e, F(LastVal)))

\* a conversion to a string: of a fresh value, or of the value the last
\* conversion of the same enumeration returned
Encode(e, fn, inputs, F(_)) ==
    \/ \E v \in inputs : Call(Op(e, fn), Typed(e, v), Typed("String", F(v)))
    \/ LastIsEnum(e) /\ Chain(Op(e, fn), Typed("String", F(LastVal)))

Init ==
    /\ ops = <<>>
    /\ vals = <<>>
    /\ callers = [c \in Callers |-> NotCalled]

SupportedProtocolFromStr ==
    Decode("SupportedProtocol", "from_str", SupportedProtocol_from_str)
SupportedProtocolFromString ==
    Decode("SupportedProtocol", "from_String", SupportedProtocol_from_String)
SupportedProtocolIntoString ==
    Encode("SupportedProtocol", "into_String",
           SupportedProtocolValues, String_from_SupportedProtocol)
SupportedProtocolRefIntoString ==
    Encode("SupportedProtocol", "ref_into_String",
           SupportedProtocolValues, String_from_SupportedProtocol_ref)
SupportedProtocolDisplay ==
    Encode("SupportedProtocol", "fmt",
           SupportedProtocolValues, SupportedProtocol_fmt)

ExchangeTypeFromStr == Decode("ExchangeType", "from_str", ExchangeType_from_str)
ExchangeTypeFromString == Decode("ExchangeType", "from_String", ExchangeType_from_String)
ExchangeTypeIntoString ==
    Encode("ExchangeType", "into_String", ExchangeTypeValues,
           String_from_ExchangeType)

QueueTypeFromStr == Decode("QueueType", "from_str", QueueType_from_str)
QueueTypeFromString == Decode("QueueType", "from_String", QueueType_from_String)
QueueTypeIntoString ==
    Encode("QueueType", "into_String", QueueTypeKnown, String_from_QueueType)

BindingDestinationTypeFromStr ==
    Decode("BindingDestinationType", "from_str", BindingDestinationType_from_str)
BindingDestinationTypeFromString ==
    Decode("BindingDestinationType", "from_String", BindingDestinationType_from_String)
BindingDestinationTypeIntoString ==
    Encode("BindingDestinationType", "into_String",
           BindingDestinationTypeKnown, String_from_BindingDestinationType)
BindingDestinationTypeDisplay ==
    Encode("BindingDestinationType", "fmt",
           BindingDestinationTypeKnown, BindingDestinationType_fmt)

PolicyTargetFromStr == Decode("PolicyTarget", "from_str", PolicyTarget_from_str)
PolicyTargetFromString == Decode("PolicyTarget", "from_String", PolicyTarget_from_String)
PolicyTargetIntoString ==
    Encode("PolicyTarget", "into_String", PolicyTargetKnown,
           String_from_PolicyTarget)
PolicyTargetDisplay ==
    Encode("PolicyTarget", "fmt", PolicyTargetKnown, PolicyTarget_fmt)

VirtualHostLimitTargetFromStr ==
    Decode("VirtualHostLimitTarget", "from_str", VirtualHostLimitTarget_from_str)
VirtualHostLimitTargetFromString ==
    Decode("VirtualHostLimitTarget", "from_String", VirtualHostLimitTarget_from_String)
VirtualHostLimitTargetAsRef ==
    Encode("VirtualHostLimitTarget", "as_ref",
           VirtualHostLimitTargetKnown, VirtualHostLimitTarget_as_ref)
VirtualHostLimitTargetIntoString ==
    Encode("VirtualHostLimitTarget", "into_String",
           VirtualHostLimitTargetKnown, String_from_VirtualHostLimitTarget)

UserLimitTargetFromStr == Decode("UserLimitTarget", "from_str", UserLimitTarget_from_str)
UserLimitTargetFromString ==
    Decode("UserLimitTarget", "from_String", UserLimitTarget_from_String)
UserLimitTargetAsRef ==
    Encode("UserLimitTarget", "as_ref", UserLimitTargetKnown,
           UserLimitTarget_as_ref)
UserLimitTargetIntoString ==
    Encode("UserLimitTarget", "into_String", UserLimitTargetKnown,
           String_from_UserLimitTarget)

\* the arguments of a named constructor
NamedArgs(n, a) == Typed("Args", [name |-> n, optional_args |-> a])

NewQuorumQueue ==
    \E n \in QueueNames, a \in XArgumentsInputs :
        Call(Op("QueueParams", "new_quorum_queue"), NamedArgs(n, a),
             Typed("QueueParams", new_quorum_queue(n, a)))

NewStream ==
    \E n \in QueueNames, a \in XArgumentsInputs :
        Call(Op("QueueParams", "new_stream"), NamedArgs(n, a),
             Typed("QueueParams", new_stream(n, a)))

NewDurableClassicQueue ==
    \E n \in QueueNames, a \in XArgumentsInputs :
        Call(Op("QueueParams", "new_durable_classic_queue"), NamedArgs(n, a),
             Typed("QueueParams", new_durable_classic_queue(n, a)))

New ==
    \E n \in QueueNames, qt \in QueueTypeKnown, d \in BOOLEAN, ad \in BOOLEAN,
       a \in XArgumentsInputs :
        Call(Op("QueueParams", "new"),
             Typed("NewArgs", [name |-> n, queue_type |-> qt, durable |-> d,
                               auto_delete |-> ad, optional_args |-> a]),
             Typed("QueueParams", new(n, qt, d, ad, a)))

\* the arguments of the constructors of ExchangeParams
KindArgs(n, d, ad, a) ==
    Typed("KindArgs", [name |-> n, durable |-> d, auto_delete |-> ad,
                       optional_args |-> a])

ExchangeFanout ==
    \E n \in ExchangeNames, d \in BOOLEAN, ad \in BOOLEAN, a \in XArgumentsInputs :
        Call(Op("ExchangeParams", "fanout"), KindArgs(n, d, ad, a),
             Typed("ExchangeParams", ExchangeParams_fanout(n, d, ad, a)))

ExchangeDurableFanout ==
    \E n \in ExchangeNames, a \in XArgumentsInputs :
        Call(Op("ExchangeParams", "durable_fanout"), NamedArgs(n, a),
             Typed("ExchangeParams", ExchangeParams_durable_fanout(n, a)))

ExchangeTopic ==
    \E n \in ExchangeNames, d \in BOOLEAN, ad \in BOOLEAN, a \in XArgumentsInputs :
        Call(Op("ExchangeParams", "topic"), KindArgs(n, d, ad, a),
             Typed("ExchangeParams", ExchangeParams_topic(n, d, ad, a)))

ExchangeDurableTopic ==
    \E n \in ExchangeNames, a \in XArgumentsInputs :
        Call(Op("ExchangeParams", "durable_topic"), NamedArgs(n, a),
             Typed("ExchangeParams", ExchangeParams_durable_topic(n, a)))

ExchangeDirect ==
    \E n \in ExchangeNames, d \in BOOLEAN, ad \in BOOLEAN, a \in XArgumentsInputs :
        Call(Op("ExchangeParams", "direct"), KindArgs(n, d, ad, a),
             Typed("ExchangeParams", ExchangeParams_direct(n, d, ad, a)))

ExchangeDurableDirect ==
    \E n \in ExchangeNames, a \in XArgumentsInputs :
        Call(Op("ExchangeParams", "durable_direct"), NamedArgs(n, a),
             Typed("ExchangeParams", ExchangeParams_durable_direct(n, a)))

ExchangeHeaders ==
    \E n \in ExchangeNames, d \in BOOLEAN, ad \in BOOLEAN, a \in XArgumentsInputs :
        Call(Op("ExchangeParams", "headers"), KindArgs(n, d, ad, a),
             Typed("ExchangeParams", ExchangeParams_headers(n, d, ad, a)))

ExchangeDurableHeaders ==
    \E n \in ExchangeNames, a \in XArgumentsInputs :
        Call(Op("ExchangeParams", "durable_headers"), NamedArgs(n, a),
             Typed("ExchangeParams", ExchangeParams_durable_headers(n, a)))

ExchangeDurable ==
    \E n \in ExchangeNames, t \in ExchangeTypeInputs, a \in XArgumentsInputs :
        Call(Op("ExchangeParams", "durable"),
             Typed("DurableArgs", [name |-> n, exchange_type |-> t, optional_args |-> a]),
             Typed("ExchangeParams", ExchangeParams_durable(n, t, a)))

ExchangeNew ==
    \E n \in ExchangeNames, t \in ExchangeTypeInputs, d \in BOOLEAN, ad \in BOOLEAN,
       a \in XArgumentsInputs :
        Call(Op("ExchangeParams", "new"),
             Typed("ExchangeNewArgs", [name |-> n, exchange_type |-> t, durable |-> d,
                                       auto_delete |-> ad, optional_args |-> a]),
             Typed("ExchangeParams", ExchangeParams_new(n, t, d, ad, a)))

DecodePolicy ==
    \E payload \in PolicyPayloads :
        Call(Op("Policy", "deserialize"), Typed("Payload", payload),
             Typed("Result", Policy_deserialize(payload)))

DecodeBindingInfo ==
    \E payload \in BindingPayloads :
        Call(Op("BindingInfo", "deserialize"), Typed("Payload", payload),
             Typed("Result", BindingInfo_deserialize(payload)))

\* a record decoded from a payload of the server
DecodeRecord(type, payloads) ==
    \E payload \in payloads :
        Call(Op(type, "deserialize"), Typed("Payload", payload),
             Typed(type, Deserialize(type, JObject(payload))))

DecodeQueueInfo == DecodeRecord("QueueInfo", QueueInfoPayloads)
DecodeClusterNode == DecodeRecord("ClusterNode", ClusterNodePayloads)
DecodeGetMessage == DecodeRecord("GetMessage", GetMessagePayloads)
DecodeRuntimeParameter == DecodeRecord("RuntimeParameter", RuntimeParameterPayloads)
DecodeOverview == DecodeRecord("Overview", OverviewPayloads)
DecodeVirtualHost == DecodeRecord("VirtualHost", VirtualHostPayloads)

\* an export decoded: the server's, or one that SerializeDefinitionSet wrote
DecodeDefinitionSet ==
    \/ DecodeRecord("DefinitionSet", DefinitionSetPayloads)
    \/ /\ ops # <<>>
       /\ Last(ops) = Op("DefinitionSet", "serialize")
       /\ Chain(Op("DefinitionSet", "deserialize"),
                Typed("DefinitionSet",
                      Deserialize("DefinitionSet", JObject(LastVal))))

\* a decoded export written as JSON again
SerializeDefinitionSet ==
    /\ ops # <<>>
    /\ Last(ops) = Op("DefinitionSet", "deserialize")
    /\ LastVal.ok
    /\ Chain(Op("DefinitionSet", "serialize"),
             Typed("Payload", Serialize("DefinitionSet", LastVal.v).object))

\* the values of an enumeration a caller may hold
ValuesOf(e) ==
    IF e = "SupportedProtocol" THEN SupportedProtocolValues
    ELSE IF e = "ExchangeType" THEN ExchangeTypeValues
    ELSE UnitVariants[e]

\* serde_json::to_value of a value of an enumeration
EnumSerialize ==
    \E e \in SerdeEnums :
        \E v \in ValuesOf(e) :
            Call(Op(e, "serialize"), Typed(e, v), Typed("Json", Enum_serialize(v)))

\* serde_json::from_value of what EnumSerialize wrote
EnumDeserialize ==
    /\ ops # <<>>
    /\ Last(ops).enum \in SerdeEnums
    /\ Last(ops).fn = "serialize"
    /\ Chain(Op(Last(ops).enum, "deserialize"),
             Typed("Result", Enum_deserialize(Last(ops).enum, LastVal)))

\* priorities a caller may give a policy: i32 values in and out of the i16 range
PriorityInputs == { 0, 10, -1, 32767, 32768, 40000, -32768, -32769, 2147483647 }

PolicyParamsInputs ==
    { PolicyParams("/", "p1", "^q", t, p, d) :
        t \in PolicyTargetKnown,
        p \in PriorityInputs,
        d \in { None, Some([k \in {"max-length"} |-> JNumber(10000)]) } }

\* a policy written for PUT /api/policies/{vhost}/{name}
DeclarePolicy ==
    \E params \in PolicyParamsInputs :
        Call(Op("PolicyParams", "serialize"), Typed("PolicyParams", params),
             Typed("Payload", PolicyParams_serialize(params).object))

\* the declared policy, as the server stored it, read back
GetPolicy ==
    /\ ops # <<>>
    /\ Last(ops) = Op("PolicyParams", "serialize")
    /\ Chain(Op("Policy", "deserialize"), Typed("Result", Policy_deserialize(LastVal)))

DecodeHealthCheckFailureDetails ==
    \E payload \in HealthCheckFailurePayloads :
        Call(Op("HealthCheckFailureDetails", "deserialize"), Typed("Payload", payload),
             Typed("HealthCheckFailureDetails",
                   HealthCheckFailureDetails_deserialize(JObject(payload))))

Next ==
    \/ SupportedProtocolFromStr
    \/ SupportedProtocolFromString
    \/ SupportedProtocolIntoString
    \/ SupportedProtocolRefIntoString
    \/ SupportedProtocolDisplay
    \/ ExchangeTypeFromStr
    \/ ExchangeTypeFromString
    \/ ExchangeTypeIntoString
    \/ QueueTypeFromStr
    \/ QueueTypeFromString
    \/ QueueTypeIntoString
    \/ BindingDestinationTypeFromStr
    \/ BindingDestinationTypeFromString
    \/ BindingDestinationTypeIntoString
    \/ BindingDestinationTypeDisplay
    \/ PolicyTargetFromStr
    \/ PolicyTargetFromString
    \/ PolicyTargetIntoString
    \/ PolicyTargetDisplay
    \/ VirtualHostLimitTargetFromStr
    \/ VirtualHostLimitTargetFromString
    \/ VirtualHostLimitTargetAsRef
    \/ VirtualHostLimitTargetIntoString
    \/ UserLimitTargetFromStr
    \/ UserLimitTargetFromString
    \/ UserLimitTargetAsRef
    \/ UserLimitTargetIntoString
    \/ NewQuorumQueue
    \/ NewStream
    \/ NewDurableClassicQueue
    \/ New
    \/ ExchangeFanout
    \/ ExchangeDurableFanout
    \/ ExchangeTopic
    \/ ExchangeDurableTopic
    \/ ExchangeDirect
    \/ ExchangeDurableDirect
    \/ ExchangeHeaders
    \/ ExchangeDurableHeaders
    \/ ExchangeDurable
    \/ ExchangeNew
    \/ DecodePolicy
    \/ DecodeBindingInfo
    \/ DecodeQueueInfo
    \/ DecodeClusterNode
    \/ DecodeGetMessage
    \/ DecodeRuntimeParameter
    \/ DecodeOverview
    \/ DecodeVirtualHost
    \/ DecodeHealthCheckFailureDetails
    \/ DecodeDefinitionSet
    \/ SerializeDefinitionSet
    \/ EnumSerialize
    \/ EnumDeserialize
    \/ DeclarePolicy
    \/ GetPolicy

Spec == Init /\ [][Next]_vars

(***************************************************************************)
(* Vocabulary used by the properties.                                      *)
(***************************************************************************)
OpenEnums == { "SupportedProtocol", "ExchangeType" }
ClosedEnums ==
    { "QueueType", "BindingDestinationType", "PolicyTarget", "VirtualHostLimitTarget",
      "UserLimitTarget" }

IsKnown(v) == v.name \notin { "Other", "Plugin" }

\* the extension variant of an open enumeration
Extension(e, s) == IF e = "SupportedProtocol" THEN Other(s) ELSE Plugin(s)

\* the documented default variant of a closed enumeration
DefaultOf(e) ==
    IF e = "QueueType" THEN Unit(e, "Classic")
    ELSE IF e = "BindingDestinationType" THEN Unit(e, "Queue")
    ELSE IF e = "PolicyTarget" THEN Unit(e, "Queues")
    ELSE Unit(e, "MaxConnections")

\* the strings that name a known variant of an enumeration
CanonicalStrings(e) ==
    IF e = "SupportedProtocol" THEN
        { "clustering", "amqp", "amqps", "stream", "stream/ssl", "mqtt", "mqtt/ssl",
          "stomp", "stomp/ssl", "http/web-mqtt", "https/web-mqtt", "http/stomp-mqtt",
          "https/stomp-mqtt", "http/prometheus", "https/prometheus", "http", "https" }
    ELSE IF e = "ExchangeType" THEN
        { "fanout", "topic", "direct", "headers", "x-consistent-hash", "x-modulus-hash",
          "x-random", "x-local-random", "x-jms-topic", "x-recent-history",
          "x-delayed-message", "x-message-deduplication" }
    ELSE IF e = "QueueType" THEN { "classic", "quorum", "stream" }
    ELSE IF e = "BindingDestinationType" THEN { "queue", "exchange" }
    ELSE IF e = "PolicyTarget" THEN
        { "queues", "classic_queues", "quorum_queues", "streams", "exchanges", "all" }
    ELSE IF e = "VirtualHostLimitTarget" THEN { "max-connections", "max-queues" }
    ELSE { "max-connections", "max-channels" }

\* the positions of the chain at which an operation was called
Calls == 1..Len(ops)

(***************************************************************************)
(* C1: for every known variant v of the seven enumerations, converting v   *)
(* to its string (From<T> for String) and that string back (From<&str>)    *)
(* yields v again.                                                         *)
(***************************************************************************)
C1_KnownVariantRoundTrip ==
    \A i \in Calls :
        (/\ i < Len(ops)
         /\ ops[i].fn = "into_String"
         /\ ops[i + 1].fn = "from_str"
         /\ IsKnown(val(i)))
        => val(i + 2) = val(i)

C1_Witness ==
    /\ Len(ops) = 2
    /\ ops[1] = Op("SupportedProtocol", "into_String")
    /\ ops[2] = Op("SupportedProtocol", "from_str")
    /\ val(1) = Unit("SupportedProtocol", "STOMPOverWebsockets")
    /\ val(3) = val(1)

(***************************************************************************)
(* C2: for SupportedProtocol and ExchangeType, a string s that names no    *)
(* known variant decodes (From<&str>) to the extension variant carrying    *)
(* exactly s, and encoding that value gives s back unchanged.              *)
(***************************************************************************)
C2_ExtensionRoundTrip ==
    \A i \in Calls :
        (/\ ops[i].enum \in OpenEnums
         /\ ops[i].fn = "from_str"
         /\ val(i) \notin CanonicalStrings(ops[i].enum))
        => /\ val(i + 1) = Extension(ops[i].enum, val(i))
           /\ (i < Len(ops) /\ ops[i + 1].fn \in EncoderFns) => val(i + 2) = val(i)

C2_Witness ==
    /\ Len(ops) = 2
    /\ ops[1] = Op("ExchangeType", "from_str")
    /\ ops[2] = Op("ExchangeType", "into_String")
    /\ val(1) = "x-custom"
    /\ val(2) = Plugin("x-custom")
    /\ val(3) = "x-custom"

(***************************************************************************)
(* C3: for the closed enumerations, From<&str> and From<String> are total: *)
(* a string that names no known variant maps to the fixed default variant  *)
(* (QueueType Classic, BindingDestinationType Queue, PolicyTarget Queues,  *)
(* VirtualHostLimitTarget and UserLimitTarget MaxConnections).             *)
(***************************************************************************)
C3_ClosedDefault ==
    \A i \in Calls :
        (/\ ops[i].enum \in ClosedEnums
         /\ ops[i].fn \in DecoderFns
         /\ val(i) \notin CanonicalStrings(ops[i].enum))
        => val(i + 1) = DefaultOf(ops[i].enum)

C3_Witness ==
    /\ Len(ops) = 1
    /\ ops[1] = Op("UserLimitTarget", "from_String")
    /\ val(1) = "max-queues"
    /\ val(2) = Unit("UserLimitTarget", "MaxConnections")

(***************************************************************************)
(* C4: decoding a Policy record whose apply-to is none of the six known    *)
(* scopes, or a BindingInfo record whose destination_type is neither queue *)
(* nor exchange, succeeds and yields the default variant (Queues, Queue)   *)
(* for that field.                                                         *)
(***************************************************************************)
C4_RecordDecodeDefaults ==
    /\ (/\ Len(ops) = 1
        /\ ops[1] = Op("Policy", "deserialize")
        /\ "apply-to" \in DOMAIN val(1)
        /\ IsString(val(1)["apply-to"])
        /\ val(1)["apply-to"].string \notin CanonicalStrings("PolicyTarget"))
       => /\ val(2).ok
          /\ val(2).v.apply_to = DefaultOf("PolicyTarget")
    /\ (/\ Len(ops) = 1
        /\ ops[1] = Op("BindingInfo", "deserialize")
        /\ "destination_type" \in DOMAIN val(1)
        /\ IsString(val(1)["destination_type"])
        /\ val(1)["destination_type"].string
              \notin CanonicalStrings("BindingDestinationType"))
       => /\ val(2).ok
          /\ val(2).v.destination_type = DefaultOf("BindingDestinationType")

(***************************************************************************)
(* The canonical wire strings of the specification, by variant.            *)
(***************************************************************************)
SpecProtocolWire ==
    ("AMQP" :> "amqp") @@ ("AMQPWithTLS" :> "amqps") @@ ("Stream" :> "stream") @@
    ("StreamWithTLS" :> "stream/ssl") @@ ("MQTT" :> "mqtt") @@
    ("MQTTWithTLS" :> "mqtt/ssl") @@ ("MQTTOverWebSockets" :> "http/web-mqtt") @@
    ("MQTTOverWebSocketsWithTLS" :> "https/web-mqtt") @@
    ("STOMPOverWebsockets" :> "http/web-stomp") @@
    ("STOMPOverWebsocketsWithTLS" :> "https/web-stomp") @@
    ("Prometheus" :> "http/prometheus") @@ ("PrometheusWithTLS" :> "https/prometheus") @@
    ("HTTP" :> "http") @@ ("HTTPWithTLS" :> "https") @@ ("Clustering" :> "clustering")

SpecWire(e) ==
    IF e = "ExchangeType" THEN
        ("Fanout" :> "fanout") @@ ("Topic" :> "topic") @@ ("Direct" :> "direct") @@
        ("Headers" :> "headers") @@ ("ConsistentHashing" :> "x-consistent-hash") @@
        ("ModulusHash" :> "x-modulus-hash") @@ ("Random" :> "x-random") @@
        ("LocalRandom" :> "x-local-random") @@ ("JmsTopic" :> "x-jms-topic") @@
        ("RecentHistory" :> "x-recent-history") @@
        ("DelayedMessage" :> "x-delayed-message") @@
        ("MessageDeduplication" :> "x-message-deduplication")
    ELSE IF e = "QueueType" THEN
        ("Classic" :> "classic") @@ ("Quorum" :> "quorum") @@ ("Stream" :> "stream")
    ELSE IF e = "PolicyTarget" THEN
        ("Queues" :> "queues") @@ ("ClassicQueues" :> "classic_queues") @@
        ("QuorumQueues" :> "quorum_queues") @@ ("Streams" :> "streams") @@
        ("Exchanges" :> "exchanges") @@ ("All" :> "all")
    ELSE IF e = "VirtualHostLimitTarget" THEN
        ("MaxConnections" :> "max-connections") @@ ("MaxQueues" :> "max-queues")
    ELSE IF e = "UserLimitTarget" THEN
        ("MaxConnections" :> "max-connections") @@ ("MaxChannels" :> "max-channels")
    ELSE ("Queue" :> "queue") @@ ("Exchange" :> "exchange")

\* the known variants of an enumeration
KnownOf(e) ==
    IF e = "SupportedProtocol" THEN SupportedProtocolKnown
    ELSE IF e = "ExchangeType" THEN ExchangeTypeKnown
    ELSE IF e = "QueueType" THEN QueueTypeKnown
    ELSE IF e = "BindingDestinationType" THEN BindingDestinationTypeKnown
    ELSE IF e = "PolicyTarget" THEN PolicyTargetKnown
    ELSE IF e = "VirtualHostLimitTarget" THEN VirtualHostLimitTargetKnown
    ELSE UserLimitTargetKnown

\* From<T> for String of the enumeration of v
IntoString(v) ==
    IF v.enum = "SupportedProtocol" THEN String_from_SupportedProtocol(v)
    ELSE IF v.enum = "ExchangeType" THEN String_from_ExchangeType(v)
    ELSE IF v.enum = "QueueType" THEN String_from_QueueType(v)
    ELSE IF v.enum = "BindingDestinationType" THEN String_from_BindingDestinationType(v)
    ELSE IF v.enum = "PolicyTarget" THEN String_from_PolicyTarget(v)
    ELSE IF v.enum = "VirtualHostLimitTarget" THEN String_from_VirtualHostLimitTarget(v)
    ELSE String_from_UserLimitTarget(v)

(***************************************************************************)
(* C5: every encoding of a known protocol variant (From<SupportedProtocol> *)
(* for String, From<&SupportedProtocol> for String, Display) is the        *)
(* canonical wire string of the specification, and decoding that string    *)
(* yields the variant.                                                     *)
(***************************************************************************)
C5_ProtocolWireStrings ==
    \A i \in Calls :
        /\ (/\ ops[i].enum = "SupportedProtocol"
            /\ ops[i].fn \in EncoderFns
            /\ val(i).name \in DOMAIN SpecProtocolWire)
           => val(i + 1) = SpecProtocolWire[val(i).name]
        /\ (/\ ops[i].enum = "SupportedProtocol"
            /\ ops[i].fn = "from_str")
           => \A n \in DOMAIN SpecProtocolWire :
                 val(i) = SpecProtocolWire[n] => val(i + 1) = Unit("SupportedProtocol", n)

(***************************************************************************)
(* C6: the string encoding (From<T> for String, as_ref) of every known     *)
(* variant of ExchangeType, QueueType, PolicyTarget,                       *)
(* VirtualHostLimitTarget, UserLimitTarget and BindingDestinationType is   *)
(* the canonical wire string of the specification, and no other variant of *)
(* the same enumeration has that string.                                   *)
(***************************************************************************)
C6_WireStrings ==
    \A i \in Calls :
        (/\ ops[i].enum \in (ClosedEnums \cup { "ExchangeType" })
         /\ ops[i].fn \in { "into_String", "as_ref" }
         /\ IsKnown(val(i)))
        => /\ val(i + 1) = SpecWire(ops[i].enum)[val(i).name]
           /\ \A w \in KnownOf(ops[i].enum) \ { val(i) } : IntoString(w) # val(i + 1)

C6_Witness ==
    /\ Len(ops) = 1
    /\ ops[1] = Op("VirtualHostLimitTarget", "as_ref")
    /\ val(1) = Unit("VirtualHostLimitTarget", "MaxQueues")
    /\ val(2) = "max-queues"

(***************************************************************************)
(* C7: decoding compares exactly.                                          *)
(***************************************************************************)
\* the characters of each input string
CharsOf == [s \in InputStrings |-> CHOOSE cs \in InputChars : Str(cs) = s]

\* s differs from the canonical string c, and only by letter case or by
\* leading or trailing whitespace
DiffersByCaseOrPadding(s, c) ==
    /\ s \in DOMAIN CharsOf
    /\ c \in DOMAIN CharsOf
    /\ s # c
    /\ Fold(CharsOf[s]) = CharsOf[c]

\* the known variant a canonical string names
VariantOf(e, c) == CHOOSE v \in KnownOf(e) : IntoString(v) = c

\* C7 as stated: a string that differs from a canonical wire string only by
\* letter case or surrounding whitespace is never decoded to the known
\* variant of that string; an open enumeration gives the extension variant
\* carrying the string unmodified, a closed one its default variant.
C7_ExactComparisonAsStated ==
    \A i \in Calls :
        \A c \in (IF ops[i].fn \in DecoderFns THEN CanonicalStrings(ops[i].enum) ELSE {}) :
            DiffersByCaseOrPadding(val(i), c)
            => /\ val(i + 1) # VariantOf(ops[i].enum, c)
               /\ ops[i].enum \in OpenEnums
                    => val(i + 1) = Extension(ops[i].enum, val(i))
               /\ ops[i].enum \in ClosedEnums => val(i + 1) = DefaultOf(ops[i].enum)

\* C7, amended: such a string never matches an arm of the table: an open
\* enumeration gives the extension variant carrying the string unmodified
\* and a closed one its default variant, so the string is decoded to the
\* known variant of the canonical string only where that variant is the
\* default of a closed enumeration.
C7_ExactComparison ==
    \A i \in Calls :
        \A c \in (IF ops[i].fn \in DecoderFns THEN CanonicalStrings(ops[i].enum) ELSE {}) :
            DiffersByCaseOrPadding(val(i), c)
            => /\ ops[i].enum \in OpenEnums
                    => val(i + 1) = Extension(ops[i].enum, val(i))
               /\ ops[i].enum \in ClosedEnums => val(i + 1) = DefaultOf(ops[i].enum)
               /\ val(i + 1) = VariantOf(ops[i].enum, c)
                    => /\ ops[i].enum \in ClosedEnums
                       /\ VariantOf(ops[i].enum, c) = DefaultOf(ops[i].enum)

C7_Witness ==
    /\ Len(ops) = 1
    /\ ops[1] = Op("QueueType", "from_str")
    /\ val(1) = "CLASSIC"
    /\ DiffersByCaseOrPadding(val(1), "classic")
    /\ val(2) = Unit("QueueType", "Classic")

(***************************************************************************)
(* The constructor calls of QueueParams.                                   *)
(***************************************************************************)
QueueParamsFns == { "new", "new_quorum_queue", "new_stream", "new_durable_classic_queue" }

\* a constructor of QueueParams was called: val(1) holds its arguments and
\* val(2) the bundle it returned
Built == Len(ops) = 1 /\ ops[1].enum = "QueueParams" /\ ops[1].fn \in QueueParamsFns

CallerArgs == val(1).optional_args
Bundle == val(2)

CallerHasMarker == CallerArgs.some /\ "x-queue-type" \in DOMAIN CallerArgs.v

\* the payload value that marks the typed kind of the bundle
TypedMarker == JString(SpecWire("QueueType")[Bundle.queue_type.name])

(***************************************************************************)
(* C8: after any QueueParams constructor called with an argument map that  *)
(* does not contain x-queue-type (absent, empty or non-empty), the         *)
(* bundle's arguments contain x-queue-type, and its value is the wire      *)
(* string of the bundle's queue_type.                                      *)
(***************************************************************************)
C8_MarkerInjected ==
    (Built /\ ~CallerHasMarker)
    => /\ Bundle.arguments.some
       /\ "x-queue-type" \in DOMAIN Bundle.arguments.v
       /\ Bundle.arguments.v["x-queue-type"] = TypedMarker

C8_Witness ==
    /\ Built
    /\ ops[1].fn = "new_stream"
    /\ CallerArgs = None
    /\ Bundle.arguments = Some([k \in {"x-queue-type"} |-> JString("stream")])

(***************************************************************************)
(* C9 as stated: when the caller's map itself contains x-queue-type with a *)
(* value different from the typed kind, the final x-queue-type value is    *)
(* the wire string of the bundle's queue_type.                             *)
(***************************************************************************)
C9_TypedKindSupersedesAsStated ==
    (/\ Built
     /\ CallerHasMarker
     /\ CallerArgs.v["x-queue-type"] # TypedMarker)
    => Bundle.arguments.v["x-queue-type"] = TypedMarker

(***************************************************************************)
(* C9, amended: when the caller's map itself contains x-queue-type with a  *)
(* value different from the typed kind, the caller's value supersedes the  *)
(* marker of the typed kind: the final x-queue-type value is the caller's, *)
(* and it differs from the wire string of the bundle's queue_type.         *)
(***************************************************************************)
C9_CallerMarkerSupersedes ==
    (/\ Built
     /\ CallerHasMarker
     /\ CallerArgs.v["x-queue-type"] # TypedMarker)
    => /\ Bundle.arguments.some
       /\ Bundle.arguments.v["x-queue-type"] = CallerArgs.v["x-queue-type"]
       /\ Bundle.arguments.v["x-queue-type"] # TypedMarker

C9_Witness ==
    /\ Built
    /\ ops[1].fn = "new_durable_classic_queue"
    /\ CallerHasMarker
    /\ CallerArgs.v["x-queue-type"] = JString("quorum")
    /\ Bundle.queue_type = Unit("QueueType", "Classic")
    /\ Bundle.arguments.v["x-queue-type"] = JString("quorum")

(***************************************************************************)
(* C10: combined_args inserts the marker into an empty map and then        *)
(* appends the caller's map, so when the caller's map defines x-queue-type *)
(* the caller's value is the final value of the key (last write wins) and  *)
(* the resulting map has exactly the caller's entries.                     *)
(***************************************************************************)
C10_LastWriteWins ==
    (Built /\ CallerHasMarker)
    => /\ Bundle.arguments.some
       /\ DOMAIN Bundle.arguments.v = DOMAIN CallerArgs.v
       /\ \A k \in DOMAIN CallerArgs.v : Bundle.arguments.v[k] = CallerArgs.v[k]

C10_Witness ==
    /\ Built
    /\ ops[1].fn = "new"
    /\ val(1).queue_type = Unit("QueueType", "Quorum")
    /\ CallerArgs = Some(Map_insert([k \in {"x-max-length"} |-> JNumber(10000)],
                                    "x-queue-type", JString("x-custom")))
    /\ Bundle.arguments = CallerArgs

\* the caller's map, an absent one read as the empty map
CallerMap == IF CallerArgs.some THEN CallerArgs.v ELSE Map_new

(***************************************************************************)
(* C11: for every QueueParams constructor and every caller map M, the keys *)
(* of the bundle's arguments are exactly the keys of M and x-queue-type,   *)
(* and every entry of M under another key than x-queue-type is in the      *)
(* bundle's arguments with the same value.                                 *)
(***************************************************************************)
C11_CallerEntriesKept ==
    Built
    => /\ Bundle.arguments.some
       /\ DOMAIN Bundle.arguments.v = DOMAIN CallerMap \cup {"x-queue-type"}
       /\ \A k \in DOMAIN CallerMap \ {"x-queue-type"} :
            Bundle.arguments.v[k] = CallerMap[k]

C11_Witness ==
    /\ Built
    /\ ops[1].fn = "new_durable_classic_queue"
    /\ CallerArgs = Some([k \in {"x-max-length"} |-> JNumber(10000)])
    /\ DOMAIN Bundle.arguments.v = {"x-queue-type", "x-max-length"}
    /\ Bundle.arguments.v["x-queue-type"] = JString("classic")
    /\ Bundle.arguments.v["x-max-length"] = JNumber(10000)

\* the kind a named constructor is for
NamedKind ==
    [fn \in QueueParamsFns \ {"new"} |->
        IF fn = "new_quorum_queue" THEN "Quorum"
        ELSE IF fn = "new_stream" THEN "Stream"
        ELSE "Classic"]

NoCallerArguments == CallerArgs = None \/ CallerArgs = Some(Map_new)

(***************************************************************************)
(* C12: a named constructor called with no caller arguments (None or an    *)
(* empty map) returns a bundle whose arguments are present and hold        *)
(* exactly one entry, x-queue-type, set to quorum for new_quorum_queue,    *)
(* stream for new_stream and classic for new_durable_classic_queue.        *)
(***************************************************************************)
C12_OnlyTheMarker ==
    (Built /\ ops[1].fn # "new" /\ NoCallerArguments)
    => Bundle.arguments =
         Some([k \in {"x-queue-type"} |->
                 JString(SpecWire("QueueType")[NamedKind[ops[1].fn]])])

C12_Witness ==
    /\ Built
    /\ ops[1].fn = "new_quorum_queue"
    /\ val(1).name = "q1"
    /\ CallerArgs = Some(Map_new)
    /\ Bundle.arguments = Some([k \in {"x-queue-type"} |-> JString("quorum")])

(***************************************************************************)
(* C13: each named constructor returns, for every name n and caller map a, *)
(* the bundle the general constructor returns for (n, kind, true, false,   *)
(* a), kind being Quorum for new_quorum_queue, Stream for new_stream and   *)
(* Classic for new_durable_classic_queue; name, queue_type, durable,       *)
(* auto_delete, exclusive and arguments are all equal.                     *)
(***************************************************************************)
C13_NamedEqualsGeneral ==
    (Built /\ ops[1].fn # "new")
    => Bundle = new(val(1).name, Unit("QueueType", NamedKind[ops[1].fn]),
                    TRUE, FALSE, CallerArgs)

C13_Witness ==
    /\ Built
    /\ ops[1].fn = "new_stream"
    /\ CallerArgs = Some([k \in {"x-max-length-bytes"} |-> JNumber(10000000)])
    /\ Bundle = new(val(1).name, Unit("QueueType", "Stream"), TRUE, FALSE, CallerArgs)
    /\ Bundle.queue_type = Unit("QueueType", "Stream")
    /\ Bundle.durable /\ ~Bundle.auto_delete /\ ~Bundle.exclusive

(***************************************************************************)
(* The constructor calls of ExchangeParams.                                *)
(***************************************************************************)
ExchangeKindFns == { "fanout", "topic", "direct", "headers" }
ExchangeDurableKindFns ==
    { "durable_fanout", "durable_topic", "durable_direct", "durable_headers" }
ExchangeParamsFns ==
    ExchangeKindFns \cup ExchangeDurableKindFns \cup { "durable", "new" }

ExchangeBuilt ==
    Len(ops) = 1 /\ ops[1].enum = "ExchangeParams" /\ ops[1].fn \in ExchangeParamsFns

\* the kind the name of a constructor states
StatedKind ==
    [fn \in ExchangeKindFns \cup ExchangeDurableKindFns |->
        IF fn \in { "fanout", "durable_fanout" } THEN Unit("ExchangeType", "Fanout")
        ELSE IF fn \in { "topic", "durable_topic" } THEN Unit("ExchangeType", "Topic")
        ELSE IF fn \in { "direct", "durable_direct" } THEN Unit("ExchangeType", "Direct")
        ELSE Unit("ExchangeType", "Headers")]

(***************************************************************************)
(* C14: every constructor of ExchangeParams returns a bundle whose         *)
(* arguments are exactly the caller's optional_args: None stays None and a *)
(* map keeps exactly its entries, no x-queue-type or other key is added.   *)
(* The kind is in the exchange_type field.                                 *)
(***************************************************************************)
C14_NoArgumentInjection ==
    ExchangeBuilt
    => /\ Bundle.arguments = CallerArgs
       /\ ops[1].fn \in { "durable", "new" }
            => Bundle.exchange_type = val(1).exchange_type
       /\ ops[1].fn \in DOMAIN StatedKind
            => Bundle.exchange_type = StatedKind[ops[1].fn]

C14_Witness ==
    /\ ExchangeBuilt
    /\ ops[1].fn = "new"
    /\ val(1).exchange_type = Unit("ExchangeType", "Topic")
    /\ CallerArgs = None
    /\ Bundle.arguments = None
    /\ Bundle.exchange_type = Unit("ExchangeType", "Topic")

Decoded(type) == Len(ops) = 1 /\ ops[1] = Op(type, "deserialize")

Payload == val(1)
Result == val(2)

\* the field of each record that goes through deserialize_map_or_seq
MapOrSeqField == [type \in { "GetMessage", "RuntimeParameter" } |->
                    IF type = "GetMessage" THEN "properties" ELSE "value"]

(***************************************************************************)
(* C16: a GetMessage.properties or RuntimeParameter.value payload that is  *)
(* a map decodes to exactly the entries of the map, and one that is a      *)
(* sequence, empty or not, decodes to the empty map; in both cases the     *)
(* decode of the enclosing record succeeds.                                *)
(***************************************************************************)
C16_MapOrSequence ==
    \A type \in DOMAIN MapOrSeqField :
        (Decoded(type) /\ MapOrSeqField[type] \in DOMAIN Payload)
        => LET key == MapOrSeqField[type]
           IN  /\ IsObject(Payload[key])
                    => Result.ok /\ Result.v[key] = Payload[key].object
               /\ IsArray(Payload[key])
                    => Result.ok /\ Result.v[key] = Map_new

\* the payload carries os_pid as the string whose characters are cs
OsPidSent(cs) ==
    /\ Decoded("ClusterNode")
    /\ "os_pid" \in DOMAIN Payload
    /\ Payload["os_pid"] = JString(Str(cs))

\* a numeral: digits, with or without a plus sign in front
IsNumeral(cs) ==
    LET digits == IF cs # <<>> /\ Head(cs) = "+" THEN Tail(cs) ELSE cs
    IN  digits # <<>> /\ \A i \in DOMAIN digits : digits[i] \in Digits

RECURSIVE StripZeros(_)
StripZeros(cs) ==
    IF Len(cs) > 1 /\ Head(cs) = "0" THEN StripZeros(Tail(cs)) ELSE cs

\* the digits of a numeral without sign and leading zeros
Canonical(cs) == StripZeros(IF Head(cs) = "+" THEN Tail(cs) ELSE cs)

\* u32::MAX, 4294967295
MaxU32Digits == <<"4", "2", "9", "4", "9", "6", "7", "2", "9", "5">>

\* a numeral of as many digits as u32::MAX is at most u32::MAX
RECURSIVE AtMost(_, _)
AtMost(ds, max) ==
    IF ds = <<>> THEN TRUE
    ELSE IF DigitValue[Head(ds)] < DigitValue[Head(max)] THEN TRUE
    ELSE IF DigitValue[Head(ds)] > DigitValue[Head(max)] THEN FALSE
    ELSE AtMost(Tail(ds), Tail(max))

FitsU32(cs) ==
    \/ Len(Canonical(cs)) < Len(MaxU32Digits)
    \/ Len(Canonical(cs)) = Len(MaxU32Digits) /\ AtMost(Canonical(cs), MaxU32Digits)

\* the numbers the numerals of the payloads denote
Denoted ==
    [cs \in { <<"4", "2", "4", "2">>, <<"0">>, <<"0", "0", "7">>, <<"+", "4", "2">>,
              MaxU32Digits } |->
        IF cs = <<"4", "2", "4", "2">> THEN u32(4242)
        ELSE IF cs = <<"0">> THEN u32(0)
        ELSE IF cs = <<"0", "0", "7">> THEN u32(7)
        ELSE IF cs = <<"+", "4", "2">> THEN u32(42)
        ELSE [hi |-> 65535, lo |-> 65535]]

(***************************************************************************)
(* C17: ClusterNode.os_pid sent as a string that is a numeral of the       *)
(* 32-bit unsigned range decodes to the number the numeral denotes, and    *)
(* sent as a plain number to that number; sent as a string that is not a   *)
(* numeral, or a numeral outside the 32-bit unsigned range, the decode of  *)
(* the node record fails.                                                  *)
(***************************************************************************)
C17_OsPidFromString ==
    /\ \A cs \in PidChars :
         OsPidSent(cs)
         => IF IsNumeral(cs) /\ FitsU32(cs)
            THEN /\ cs \in DOMAIN Denoted
                 /\ Result = Ok([Result.v EXCEPT !.os_pid = Denoted[cs]])
            ELSE Result = Err("os_pid")
    /\ (/\ Decoded("ClusterNode")
        /\ "os_pid" \in DOMAIN Payload
        /\ IsNumber(Payload["os_pid"])
        /\ Payload["os_pid"].number >= 0)
       => /\ Result.ok
          /\ Result.v.os_pid = u32(Payload["os_pid"].number)

C17_Witness ==
    /\ OsPidSent(<<"4", "2", "4", "2">>)
    /\ Result.ok
    /\ Result.v.os_pid = u32(4242)
    /\ Result.v.name = "rabbit@n1"

\* the failures C17 is about are reached as well
C17_WitnessOutOfRange ==
    /\ OsPidSent(<<"4", "2", "9", "4", "9", "6", "7", "2", "9", "6">>)
    /\ Result = Err("os_pid")

ReplicatedFields == { "leader", "members", "online" }

\* the value a payload carries under leader, members or online is of the
\* type of the field
WellTyped(key, json) ==
    IF key = "leader" THEN IsString(json)
    ELSE IsArray(json) /\ \A i \in DOMAIN json.array : IsString(json.array[i])

\* the value of the field a well typed payload entry decodes to
Carried(key, json) ==
    IF key = "leader" THEN json.string
    ELSE [i \in DOMAIN json.array |-> json.array[i].string]

(***************************************************************************)
(* C18: a QueueInfo payload, of any queue type, in which each of leader,   *)
(* members and online is either left out or carried with a value of the    *)
(* field's type decodes successfully; a field left out is None and a field *)
(* carried is Some of the carried value.                                   *)
(***************************************************************************)
C18_ReplicatedFieldsOptional ==
    (/\ Decoded("QueueInfo")
     /\ \A key \in ReplicatedFields \cap DOMAIN Payload : WellTyped(key, Payload[key]))
    => /\ Result.ok
       /\ \A key \in ReplicatedFields :
            Result.v[key] = IF key \in DOMAIN Payload
                            THEN Some(Carried(key, Payload[key]))
                            ELSE None

C18_Witness ==
    /\ Decoded("QueueInfo")
    /\ Payload["type"] = JString("classic")
    /\ "leader" \in DOMAIN Payload
    /\ "members" \in DOMAIN Payload
    /\ "online" \notin DOMAIN Payload
    /\ Result.ok
    /\ Result.v.queue_type = "classic"
    /\ Result.v.leader = Some("rabbit@n1")
    /\ Result.v.members = Some(<<"rabbit@n1", "rabbit@n2">>)
    /\ Result.v.online = None

\* a payload decodes whether or not it carries the key: with the key left
\* out it decodes exactly when it decodes with a value of the field's type
\* under the key
AbsenceNeverFails(type, payload, key, json) ==
    key \notin DOMAIN payload
    => Deserialize(type, JObject(payload)).ok
         = Deserialize(type, JObject(Map_insert(payload, key, json))).ok

(***************************************************************************)
(* C19: an Overview payload without cluster_tags or node_tags and a        *)
(* VirtualHost payload without default_queue_type (in the record or in its *)
(* metadata) decode whenever the same payload with the field decodes, and  *)
(* the field left out is None in the decoded record.                       *)
(***************************************************************************)
C19_OlderServerFieldsOptional ==
    /\ Decoded("Overview")
       => \A key \in { "cluster_tags", "node_tags" } :
            /\ AbsenceNeverFails("Overview", Payload, key, TagMapPayload)
            /\ (Result.ok /\ key \notin DOMAIN Payload) => Result.v[key] = None
    /\ Decoded("VirtualHost")
       => /\ AbsenceNeverFails("VirtualHost", Payload, "default_queue_type",
                               JString("quorum"))
          /\ (Result.ok /\ "default_queue_type" \notin DOMAIN Payload)
                => Result.v.default_queue_type = None
          /\ "metadata" \in DOMAIN Payload
                => /\ AbsenceNeverFails("VirtualHostMetadata", Payload["metadata"].object,
                                        "default_queue_type", JString("quorum"))
                   /\ (/\ Result.ok
                       /\ "default_queue_type" \notin DOMAIN Payload["metadata"].object)
                         => Result.v.metadata.default_queue_type = None

C19_Witness ==
    /\ Decoded("Overview")
    /\ "cluster_tags" \notin DOMAIN Payload
    /\ "node_tags" \notin DOMAIN Payload
    /\ Result.ok
    /\ Result.v.cluster_tags = None
    /\ Result.v.node_tags = None
    /\ Result.v.rabbitmq_version = "3.13.7"

\* the same for a virtual host of an older server
C19_WitnessVirtualHost ==
    /\ Decoded("VirtualHost")
    /\ "default_queue_type" \notin DOMAIN Payload
    /\ "metadata" \in DOMAIN Payload
    /\ "default_queue_type" \notin DOMAIN Payload["metadata"].object
    /\ Result.ok
    /\ Result.v.default_queue_type = None
    /\ Result.v.metadata.default_queue_type = None

(***************************************************************************)
(* C20: a flat failure payload with reason and alarms decodes to the       *)
(* variant AlarmCheck, and one with reason and queues to the variant       *)
(* NodeIsQuorumCritical, with no key that names the variant.               *)
(***************************************************************************)
C20_VariantInferredFromEvidence ==
    Decoded("HealthCheckFailureDetails")
    => /\ {"reason", "alarms"} \subseteq DOMAIN Payload
            => Result.ok /\ Result.v.variant = "AlarmCheck"
       /\ {"reason", "queues"} \subseteq DOMAIN Payload
            => Result.ok /\ Result.v.variant = "NodeIsQuorumCritical"
(***************************************************************************)
(* An export of definitions written again.                                 *)
(***************************************************************************)
\* the export was decoded and written again
ReEncoded ==
    /\ Len(ops) >= 2
    /\ ops[1] = Op("DefinitionSet", "deserialize")
    /\ ops[2] = Op("DefinitionSet", "serialize")

\* C21: a DefinitionSet decoded from an export and encoded again keeps every
\* field the model reads under its original key with its original value
\* (rabbitmq_version, vhosts, an exchange's type, a policy's apply-to), and
\* the encoded export decodes again to an equal DefinitionSet.
C21_ReEncodingPreservesExport ==
    ReEncoded =>
        /\ \A f \in { DefinitionSet_fields[i] : i \in DOMAIN DefinitionSet_fields } :
              /\ f.key \in DOMAIN val(3)
              /\ Deserialize(f.type, val(3)[f.key]) = Deserialize(f.type, Payload[f.key])
        /\ Len(ops) = 3 => val(4) = val(2)

(***************************************************************************)
(* The totals of an overview.                                              *)
(***************************************************************************)
\* C22: a decoded Overview carries the object totals of the payload
\* (connections, channels, queues, exchanges), so that a caller reads
\* overview.object_totals.exchanges.
C22_OverviewCarriesObjectTotals ==
    (Decoded("Overview") /\ Result.ok /\ "object_totals" \in DOMAIN Payload) =>
        /\ "object_totals" \in DOMAIN Result.v
        /\ Ok(Result.v.object_totals) =
              Deserialize("ObjectTotals", Payload.object_totals)

(***************************************************************************)
(* The enumerations through serde.                                         *)
(***************************************************************************)
\* a value of an enumeration was serialized
Serialized == ops # <<>> /\ ops[1].enum \in SerdeEnums /\ ops[1].fn = "serialize"

\* ... and what was written was deserialized
SerdeRoundTrip == Serialized /\ Len(ops) >= 2 /\ ops[2].fn = "deserialize"

\* C23: for every value v of the seven enumerations, deserialize(serialize(v))
\* is v: a known variant decodes to itself (Fanout to Fanout, not to Plugin;
\* Classic and Clustering without error) and an extension value to the
\* extension with the same string.
C23_SerdeRoundTrip ==
    SerdeRoundTrip => val(3) = Ok(val(1))

\* C25: for every known variant, the string serde writes is the string
\* From<T> for String / as_ref gives (AMQPWithTLS, STOMPOverWebsockets,
\* STOMPOverWebsocketsWithTLS, UserLimitTarget::MaxChannels included).
C25_SerdeNameIsWireString ==
    (Serialized /\ IsKnown(val(1))) => val(2) = JString(IntoString(val(1)))

(***************************************************************************)
(* What deserialize_map_or_seq refuses.                                    *)
(***************************************************************************)
\* neither a map nor a sequence
IsScalar(json) == IsString(json) \/ IsNumber(json) \/ IsBool(json) \/ IsNull(json)

\* C26: a field read through deserialize_map_or_seq (GetMessage.properties,
\* RuntimeParameter.value) that arrives as a string, a number, a boolean or
\* null, or that is missing from the payload, makes the decode of the record
\* fail on that field; it is never replaced by the default.
C26_ScalarOrMissingFails ==
    \A type \in DOMAIN MapOrSeqField :
        LET key == MapOrSeqField[type]
        IN  (Decoded(type) /\ (key \in DOMAIN Payload => IsScalar(Payload[key])))
            => Result = Err(key)

C26_Witness ==
    /\ Decoded("GetMessage")
    /\ "properties" \in DOMAIN Payload
    /\ Payload["properties"] = JString("x")
    /\ Result = Err("properties")

C26_WitnessMissing ==
    /\ Decoded("RuntimeParameter")
    /\ "value" \notin DOMAIN Payload
    /\ Result = Err("value")

(***************************************************************************)
(* C27: every constructor of QueueParams (new, new_quorum_queue,           *)
(* new_stream, new_durable_classic_queue) returns a bundle that is not     *)
(* exclusive and whose arguments are present (Some), whatever the caller   *)
(* passed.                                                                 *)
(***************************************************************************)
C27_NeverExclusiveArgumentsPresent ==
    Built => ~Bundle.exclusive /\ Bundle.arguments.some

C27_Witness ==
    /\ Built
    /\ ops[1].fn = "new_stream"
    /\ ~CallerArgs.some
    /\ ~Bundle.exclusive
    /\ Bundle.arguments.some

(***************************************************************************)
(* A declared policy read back.                                            *)
(***************************************************************************)
Declared == ops # <<>> /\ ops[1] = Op("PolicyParams", "serialize")
ReadBack == Declared /\ Len(ops) >= 2 /\ ops[2] = Op("Policy", "deserialize")

\* C28: every priority a PolicyParams can carry (an i32) is decoded unchanged
\* by Policy when the declared policy is read back: no failure, no overflow,
\* no truncation.
C28_PriorityReadBackUnchanged ==
    ReadBack => val(3).ok /\ val(3).v.priority = val(1).priority

(***************************************************************************)
(* The open enumerations: a string decoded and encoded again.              *)
(***************************************************************************)
\* call i decodes a string of an open enumeration and call i + 1 encodes
\* what it returned
DecodedThenEncoded(i) ==
    /\ i < Len(ops)
    /\ ops[i].enum \in OpenEnums
    /\ ops[i].fn \in DecoderFns
    /\ ops[i + 1].fn \in EncoderFns

\* call i encodes an extension value that carries the wire string of a known
\* variant
ExtensionOfKnownEncoded(i) ==
    /\ ops[i].enum \in OpenEnums
    /\ ops[i].fn \in EncoderFns
    /\ ~IsKnown(val(i))
    /\ val(i).data \in CanonicalStrings(ops[i].enum)

\* C29: for SupportedProtocol and ExchangeType, encode(decode(s)) = s for
\* every string s; an extension value that carries the wire string of a
\* known variant (Plugin("fanout"), Other("amqp")) encodes to that string
\* and the string decodes to the known variant; and
\* decode(encode(decode(s))) = decode(s).
C29_StringRoundTrip ==
    \A i \in Calls :
        /\ DecodedThenEncoded(i)
              => /\ val(i + 2) = val(i)
                 /\ (i + 2 <= Len(ops) /\ ops[i + 2].fn \in DecoderFns)
                       => val(i + 3) = val(i + 1)
        /\ ExtensionOfKnownEncoded(i)
              => /\ val(i + 1) = val(i).data
                 /\ (i < Len(ops) /\ ops[i + 1].fn \in DecoderFns)
                       => val(i + 2) = VariantOf(ops[i].enum, val(i).data)

C29_Witness ==
    /\ Len(ops) = 3
    /\ DecodedThenEncoded(1)
    /\ ops[1].enum = "ExchangeType"
    /\ ops[3].fn \in DecoderFns
    /\ val(1) = "x-custom"
    /\ val(2) = Plugin("x-custom")
    /\ val(3) = "x-custom"
    /\ val(4) = Plugin("x-custom")

C29_WitnessExtensionOfKnown ==
    /\ Len(ops) = 2
    /\ ExtensionOfKnownEncoded(1)
    /\ val(1) = Plugin("fanout")
    /\ val(2) = "fanout"
    /\ val(3) = Unit("ExchangeType", "Fanout")

(***************************************************************************)
(* The conversions that come in pairs.                                     *)
(***************************************************************************)
\* From<&str> of the enumeration e
FromStr(e, s) ==
    IF e = "SupportedProtocol" THEN SupportedProtocol_from_str(s)
    ELSE IF e = "ExchangeType" THEN ExchangeType_from_str(s)
    ELSE IF e = "QueueType" THEN QueueType_from_str(s)
    ELSE IF e = "BindingDestinationType" THEN BindingDestinationType_from_str(s)
    ELSE IF e = "PolicyTarget" THEN PolicyTarget_from_str(s)
    ELSE IF e = "VirtualHostLimitTarget" THEN VirtualHostLimitTarget_from_str(s)
    ELSE UserLimitTarget_from_str(s)

\* From<String> of the enumeration e
FromString(e, s) ==
    IF e = "SupportedProtocol" THEN SupportedProtocol_from_String(s)
    ELSE IF e = "ExchangeType" THEN ExchangeType_from_String(s)
    ELSE IF e = "QueueType" THEN QueueType_from_String(s)
    ELSE IF e = "BindingDestinationType" THEN BindingDestinationType_from_String(s)
    ELSE IF e = "PolicyTarget" THEN PolicyTarget_from_String(s)
    ELSE IF e = "VirtualHostLimitTarget" THEN VirtualHostLimitTarget_from_String(s)
    ELSE UserLimitTarget_from_String(s)

\* C30: From<&str> and From<String> of each enumeration return the same
\* value for the same string; From<SupportedProtocol> for String,
\* From<&SupportedProtocol> for String and Display return the same string
\* for every protocol value, known or Other; and Display of PolicyTarget and
\* of BindingDestinationType is their From<T> for String.
C30_PairedConversionsAgree ==
    \A i \in Calls :
        /\ ops[i].fn = "from_str" => val(i + 1) = FromString(ops[i].enum, val(i))
        /\ ops[i].fn = "from_String" => val(i + 1) = FromStr(ops[i].enum, val(i))
        /\ ops[i].fn \in { "ref_into_String", "fmt" } => val(i + 1) = IntoString(val(i))
        /\ (ops[i].fn = "into_String" /\ ops[i].enum = "SupportedProtocol")
              => /\ val(i + 1) = String_from_SupportedProtocol_ref(val(i))
                 /\ val(i + 1) = SupportedProtocol_fmt(val(i))

C30_Witness ==
    /\ Len(ops) = 1
    /\ ops[1] = Op("SupportedProtocol", "fmt")
    /\ val(1) = Other("x-custom")
    /\ val(2) = "x-custom"
    /\ val(2) = String_from_SupportedProtocol(val(1))

C30_WitnessFromString ==
    /\ Len(ops) = 1
    /\ ops[1] = Op("QueueType", "from_String")
    /\ val(1) = "quorum"
    /\ val(2) = QueueType_from_str("quorum")
    /\ val(2) = Unit("QueueType", "Quorum")

(***************************************************************************)
(* Callers that run at the same time.  Every caller has its own frame;     *)
(* commons.rs and requests.rs declare no static and no shared cell, so the *)
(* steps of a call read and write the frame of their caller only.          *)
(* QueueParams::new runs in steps, the conversions in one.                 *)
(***************************************************************************)
\* the argument maps, kinds, values and strings the callers use
ConcArguments ==
    { None, Some([k \in {"x-max-length"} |-> JNumber(10000)]),
      Some([k \in {"x-queue-type"} |-> JString("quorum")]) }
ConcQueueTypes == { Unit("QueueType", "Classic"), Unit("QueueType", "Quorum") }
ConcValues == { Unit("SupportedProtocol", "AMQPWithTLS"), Plugin("x-custom") }
ConcStrings ==
    { [enum |-> "ExchangeType", value |-> "fanout"],
      [enum |-> "QueueType", value |-> "Quorum"] }

\* combined_args: let mut result = Map::new(); result.insert("x-queue-type", ...)
combined_args_insert(frame) ==
    [frame EXCEPT
        !.pc = "marked",
        !.result = Map_insert(Map_new, "x-queue-type",
                              QueueType_serialize(Untyped(frame.input).queue_type))]

\* the append step emptying the caller's own map as well, as it would if the
\* constructor were handed the caller's map and not a clone
combined_args_append_draining_caller(frame) ==
    IF frame.passed.some
    THEN [frame EXCEPT !.pc = "appended",
                       !.result = Map_append(frame.result, frame.passed.v),
                       !.passed = Some(Map_new),
                       !.own = Some(Map_new)]
    ELSE [frame EXCEPT !.pc = "appended"]

\* combined_args: if let Some(mut val) = optional_args { result.append(&mut val) };
\* append moves the entries out of val, the map the constructor was handed
combined_args_append(frame) ==
    IF frame.passed.some
    THEN [frame EXCEPT !.pc = "appended",
                       !.result = Map_append(frame.result, frame.passed.v),
                       !.passed = Some(Map_new)]
    ELSE [frame EXCEPT !.pc = "appended"]

\* combined_args returns Some(result) and new the bundle around it
new_return(frame) ==
    LET args == Untyped(frame.input)
    IN  [frame EXCEPT
            !.pc = "done",
            !.ret = Typed("QueueParams",
                          QueueParams(args.name, args.queue_type, args.durable,
                                      args.auto_delete, FALSE, Some(frame.result)))]

\* caller c moves to frame; nobody else does
Step(c, frame) ==
    /\ callers' = [callers EXCEPT ![c] = frame]
    /\ UNCHANGED <<ops, vals>>

\* QueueParams::new(name, queue_type, true, false, optional_args.clone())
CallerNew ==
    \E c \in Callers :
        /\ callers[c].pc = "idle"
        /\ \E qt \in ConcQueueTypes, a \in ConcArguments :
              Step(c, Frame("entered", "new",
                            Typed("NewArgs", [name |-> "q1", queue_type |-> qt,
                                              durable |-> TRUE, auto_delete |-> FALSE,
                                              optional_args |-> a]),
                            a, a, Map_new, Nothing))

CallerInsert ==
    \E c \in Callers :
        callers[c].pc = "entered" /\ Step(c, combined_args_insert(callers[c]))

CallerAppend ==
    \E c \in Callers :
        callers[c].pc = "marked" /\ Step(c, combined_args_append(callers[c]))

CallerReturn ==
    \E c \in Callers :
        callers[c].pc = "appended" /\ Step(c, new_return(callers[c]))

\* String::from(value)
CallerEncode ==
    \E c \in Callers :
        /\ callers[c].pc = "idle"
        /\ \E v \in ConcValues :
              Step(c, Frame("done", "into_String", Typed(v.enum, v), None, None, Map_new,
                            Typed("String", IntoString(v))))

\* T::from(value)
CallerDecode ==
    \E c \in Callers :
        /\ callers[c].pc = "idle"
        /\ \E s \in ConcStrings :
              Step(c, Frame("done", "from_str", Typed("FromArgs", s), None, None, Map_new,
                            Typed(s.enum, FromStr(s.enum, s.value))))

ConcNext ==
    \/ CallerNew
    \/ CallerInsert
    \/ CallerAppend
    \/ CallerReturn
    \/ CallerEncode
    \/ CallerDecode

ConcSpec == Init /\ [][ConcNext]_vars

\* what the operation returns when it runs alone
Sequential(op, input) ==
    LET args == Untyped(input)
    IN  IF op = "new"
        THEN Typed("QueueParams", new(args.name, args.queue_type, args.durable,
                                      args.auto_delete, args.optional_args))
        ELSE IF op = "into_String" THEN Typed("String", IntoString(args))
        ELSE Typed(args.enum, FromStr(args.enum, args.value))

Returned(c) == callers[c].pc = "done"

====
